---- MODULE Spec2Model ----
(***************************************************************************)
(* A model of cinema_scraper.py: the retrying fetcher, the persisted       *)
(* stores (detail cache, TMDb cache, release history), the listing and     *)
(* detail extraction, the TMDb enrichment and the main run.                *)
(***************************************************************************)
EXTENDS Integers, Sequences, FiniteSets, TLC

VARIABLES
    fetch,      \* the frame of one fetch_with_retries call
    ld,         \* one call of a load operation: its store, the clock, its result
    conf,       \* the configuration constants of the module
    world,      \* which pages the web site serves
    api_key,    \* the value of TMDB_API_KEY in the environment
    disk,       \* the files: cache, tmdb, history, ics, index
    clock,      \* the clock of the current run
    run,        \* the number of the current run of main
    pc,         \* where main is
    film_cache, \* main's detail cache
    loaded,     \* the detail cache as load_cache returned it in this run
    all_films,  \* main's list of film tuples
    vi,         \* the position of the scraping loop in enabled_cinemas
    tmdb_cache, \* main's TMDb cache
    todo,       \* the items of unique_by_key not yet enriched
    log,        \* what the runs did, in order: loads, GETs, saves, statistics, writes
    scraped,    \* per run, the film tuples as extract_films returned them
    faults,     \* how many failures the environment has produced
    en,         \* one call of enrich_film_tmdb and a second one after it
    pd,         \* one call of parse_date: the label, the day, the result
    fo,         \* one call of escape_and_fold_ical_text
    fc          \* one call of a function on inputs of any kind

\* ------------------------------------------------------------------------
\* Program constants
\* ------------------------------------------------------------------------
HTTP_RETRIES == 3
HTTP_RETRY_DELAY == 1
HTTP_RETRY_MULTIPLIER == 2
RELEASE_HISTORY_MAX_DAYS == 730
CACHE_EXPIRY_DAYS == 7
TMDB_CACHE_DAYS == 30
MIN_SYNOPSIS_LENGTH == 50
MAX_SYNOPSIS_LENGTH == 500
SYNOPSIS_SKIP_TERMS == {"cookie", "privacy", "terms", "wheelchair", "audio description"}

\* ------------------------------------------------------------------------
\* Bounds of the model
\* ------------------------------------------------------------------------
\* largest retry count passed to fetch_with_retries in SpecFetch
MaxRetries == 5
MaxRuns == 2
MaxFaults == 2
\* longest text given to escape_and_fold_ical_text in SpecFold
MaxTextLen == 230

\* ------------------------------------------------------------------------
\* Sequence helpers
\* ------------------------------------------------------------------------
Range(s) == { s[i] : i \in DOMAIN s }

\* ------------------------------------------------------------------------
\* fetch_with_retries
\* ------------------------------------------------------------------------
\* What one requests.get + raise_for_status can do: a 2xx response, a
\* non-2xx status (HTTPError) or a transport failure; both failures are
\* requests.RequestException.
Outcomes == {"ok", "http_error", "transport_error"}

FetchIdle ==
    [status |-> "idle", retries |-> 0, attempt |-> 0, delay |-> 0,
     sleeps |-> <<>>, outcomes |-> <<>>]

\* Entry of the function: delay = HTTP_RETRY_DELAY, then `for attempt in
\* range(retries)`; an empty range falls off the end (returns None).
fetch_begin(retries) ==
    [status |-> IF retries > 0 THEN "running" ELSE "none",
     retries |-> retries, attempt |-> 0, delay |-> HTTP_RETRY_DELAY,
     sleeps |-> <<>>, outcomes |-> <<>>]

\* A faulty variant of fetch_attempt: the last-attempt test is off by one, so the
\* failure of the last attempt is slept on instead of raised.
fetch_attempt_offbyone(st, o) ==
    LET st1 == [st EXCEPT !.outcomes = Append(@, o)] IN
    IF o = "ok" THEN [st1 EXCEPT !.status = "returned"]
    ELSE IF st.attempt = st.retries THEN [st1 EXCEPT !.status = "raised"]
    ELSE [st1 EXCEPT !.sleeps = Append(@, st.delay),
                     !.delay = @ * HTTP_RETRY_MULTIPLIER,
                     !.attempt = @ + 1,
                     !.status = IF st.attempt + 1 < st.retries
                                THEN "running" ELSE "none"]

\* A faulty variant of fetch_attempt: the delay is not multiplied.
fetch_attempt_fixed_delay(st, o) ==
    LET st1 == [st EXCEPT !.outcomes = Append(@, o)] IN
    IF o = "ok" THEN [st1 EXCEPT !.status = "returned"]
    ELSE IF st.attempt = st.retries - 1 THEN [st1 EXCEPT !.status = "raised"]
    ELSE [st1 EXCEPT !.sleeps = Append(@, st.delay),
                     !.attempt = @ + 1,
                     !.status = IF st.attempt + 1 < st.retries
                                THEN "running" ELSE "none"]

\* One iteration of the loop body, given what the GET did.
fetch_attempt(st, o) ==
    LET st1 == [st EXCEPT !.outcomes = Append(@, o)] IN
    IF o = "ok" THEN [st1 EXCEPT !.status = "returned"]
    ELSE IF st.attempt = st.retries - 1 THEN [st1 EXCEPT !.status = "raised"]
    ELSE [st1 EXCEPT !.sleeps = Append(@, st.delay),
                     !.delay = @ * HTTP_RETRY_MULTIPLIER,
                     !.attempt = @ + 1,
                     !.status = IF st.attempt + 1 < st.retries
                                THEN "running" ELSE "none"]

RECURSIVE fetch_run(_, _)
fetch_run(st, outs) ==
    IF st.status # "running" \/ outs = <<>> THEN st
    ELSE fetch_run(fetch_attempt(st, Head(outs)), Tail(outs))

\* The whole call, against a server that answers the k-th GET with outs[k].
fetch_with_retries(retries, outs) == fetch_run(fetch_begin(retries), outs)

\* ------------------------------------------------------------------------
\* Calendar dates (datetime.date) as <<year, month, day>> and timestamps
\* (datetime.datetime) as [date, h, mi, s, us]
\* ------------------------------------------------------------------------
IsLeap(y) == (y % 4 = 0 /\ y % 100 # 0) \/ y % 400 = 0

DaysInMonth(y, m) ==
    IF m \in {4, 6, 9, 11} THEN 30
    ELSE IF m = 2 THEN (IF IsLeap(y) THEN 29 ELSE 28)
    ELSE 31

\* datetime.date(y, m, d) raises ValueError outside these ranges
ValidDate(y, m, d) ==
    /\ y \in 1..9999
    /\ m \in 1..12
    /\ d \in 1..DaysInMonth(y, m)

DateLess(a, b) ==
    \/ a[1] < b[1]
    \/ a[1] = b[1] /\ a[2] < b[2]
    \/ a[1] = b[1] /\ a[2] = b[2] /\ a[3] < b[3]

DateLeq(a, b) == a = b \/ DateLess(a, b)

DaysBeforeYear(y) ==
    LET p == y - 1 IN p * 365 + (p \div 4) - (p \div 100) + (p \div 400)

RECURSIVE DaysBeforeMonth(_, _)
DaysBeforeMonth(y, m) ==
    IF m <= 1 THEN 0 ELSE DaysBeforeMonth(y, m - 1) + DaysInMonth(y, m - 1)

toordinal(d) == DaysBeforeYear(d[1]) + DaysBeforeMonth(d[1], d[2]) + d[3]

\* date.fromordinal: the 400/100/4/1-year cycle decomposition of the
\* standard library, then the month holding the day of the year
fromordinal(n) ==
    LET n0   == n - 1
        n400 == n0 \div 146097
        r400 == n0 % 146097
        n100 == r400 \div 36524
        r100 == r400 % 36524
        n4   == r100 \div 1461
        r4   == r100 % 1461
        n1   == r4 \div 365
        r1   == r4 % 365
        y    == n400 * 400 + n100 * 100 + n4 * 4 + n1 + 1
    IN  IF n1 = 4 \/ n100 = 4 THEN <<y - 1, 12, 31>>
        ELSE LET m == CHOOSE k \in 1..12 :
                          /\ DaysBeforeMonth(y, k) <= r1
                          /\ r1 < DaysBeforeMonth(y, k) + DaysInMonth(y, k)
             IN  <<y, m, r1 - DaysBeforeMonth(y, m) + 1>>

\* d + datetime.timedelta(days=k)
DateAddDays(d, k) == fromordinal(toordinal(d) + k)

\* ts - datetime.timedelta(days=k): the time of day is kept
StampMinusDays(ts, k) == [ts EXCEPT !.date = DateAddDays(@, 0 - k)]

\* the order of two timestamps in time
StampLess(a, b) ==
    \/ DateLess(a.date, b.date)
    \/ /\ a.date = b.date
       /\ \/ a.h < b.h
          \/ a.h = b.h /\ a.mi < b.mi
          \/ a.h = b.h /\ a.mi = b.mi /\ a.s < b.s
          \/ a.h = b.h /\ a.mi = b.mi /\ a.s = b.s /\ a.us < b.us

\* ------------------------------------------------------------------------
\* Text of dates and timestamps: a string is the sequence of its character
\* codes, so that Python's str comparison can be computed
\* ------------------------------------------------------------------------
Digit(n) == 48 + n
Num2(n) == <<Digit(n \div 10), Digit(n % 10)>>
Num4(n) == <<Digit(n \div 1000), Digit((n \div 100) % 10)>> \o Num2(n % 100)
Num6(n) == Num2(n \div 10000) \o Num4(n % 10000)

\* date.isoformat(): YYYY-MM-DD
date_isoformat(d) == Num4(d[1]) \o <<45>> \o Num2(d[2]) \o <<45>> \o Num2(d[3])

\* datetime.isoformat(): YYYY-MM-DDTHH:MM:SS, and .ffffff only when the
\* microsecond is not zero
isoformat(ts) ==
    date_isoformat(ts.date) \o <<84>> \o Num2(ts.h) \o <<58>> \o Num2(ts.mi)
        \o <<58>> \o Num2(ts.s)
        \o (IF ts.us = 0 THEN <<>> ELSE <<46>> \o Num6(ts.us))

\* Python's a > b on str: the first differing character decides, and a
\* proper prefix is the smaller
StrGreater(a, b) ==
    \/ \E i \in 1..Len(a) :
          /\ i <= Len(b)
          /\ a[i] > b[i]
          /\ \A j \in 1..(i - 1) : a[j] = b[j]
    \/ /\ Len(a) > Len(b)
       /\ \A j \in 1..Len(b) : a[j] = b[j]

IsDigitCode(c) == c \in 48..57
DigitsValue2(s, i) == (s[i] - 48) * 10 + (s[i + 1] - 48)

\* datetime.strptime(s, "%Y-%m-%d").date() on a zero-padded date text:
\* <<d>> for a valid date, <<>> for ValueError
strptime_date(s) ==
    IF /\ Len(s) = 10
       /\ s[5] = 45 /\ s[8] = 45
       /\ \A i \in {1, 2, 3, 4, 6, 7, 9, 10} : IsDigitCode(s[i])
    THEN LET y == DigitsValue2(s, 1) * 100 + DigitsValue2(s, 3)
             m == DigitsValue2(s, 6)
             d == DigitsValue2(s, 9)
         IN  IF ValidDate(y, m, d) THEN << <<y, m, d>> >> ELSE <<>>
    ELSE <<>>

\* ------------------------------------------------------------------------
\* Persisted stores: what is on disk and what json.load makes of it
\* ------------------------------------------------------------------------
\* A JSON value is [t, v]: t its type ("obj", "list", "str", "num", "null")
\* and v its payload (a function for an object, a sequence for a list, the
\* character codes of a string).
JObj(f) == [t |-> "obj", v |-> f]
JList(q) == [t |-> "list", v |-> q]
JStr(str) == [t |-> "str", v |-> str]
JNum(n) == [t |-> "num", v |-> n]
JNull == [t |-> "null", v |-> <<>>]

\* A file: missing; present but open/read raises OSError; present but not
\* UTF-8 (UnicodeDecodeError, a ValueError); text that is not JSON
\* (json.JSONDecodeError); or a JSON document.
MissingFile == [kind |-> "missing", json |-> JNull]
UnreadableFile == [kind |-> "unreadable", json |-> JNull]
UndecodableFile == [kind |-> "undecodable", json |-> JNull]
NotJsonFile == [kind |-> "notjson", json |-> JNull]
JsonFile(j) == [kind |-> "json", json |-> j]

\* How a function ends: with a value, or with an exception that leaves it
Returned(v) == [status |-> "returned", exc |-> "", value |-> v]
Raised(e) == [status |-> "raised", exc |-> e, value |-> <<>>]

\* open + json.load / read_text + json.loads
read_json(file) ==
    CASE file.kind = "unreadable"  -> Raised("OSError")
      [] file.kind = "undecodable" -> Raised("UnicodeDecodeError")
      [] file.kind = "notjson"     -> Raised("JSONDecodeError")
      [] OTHER                     -> Returned(file.json)

\* data.get('cached_at', '') on an entry that is a dict
cached_at_of(entry) ==
    IF "cached_at" \in DOMAIN entry.v THEN entry.v["cached_at"] ELSE JStr(<<>>)

\* A faulty variant of fresh_entries: the comparison is turned round (keeps the
\* expired entries).
fresh_entries_reversed(j, cutoff) ==
    IF j.t # "obj" THEN Raised("AttributeError")
    ELSE IF \E k \in DOMAIN j.v : j.v[k].t # "obj" THEN Raised("AttributeError")
    ELSE IF \E k \in DOMAIN j.v : cached_at_of(j.v[k]).t # "str"
         THEN Raised("TypeError")
    ELSE Returned([k \in {x \in DOMAIN j.v :
                            ~StrGreater(cached_at_of(j.v[x]).v, cutoff)}
                      |-> j.v[k]])

\* {k: v for k, v in cache.items() if v.get('cached_at', '') > cutoff}:
\* .items() needs a dict, .get needs each value to be a dict, and > needs
\* cached_at to be a str
fresh_entries(j, cutoff) ==
    IF j.t # "obj" THEN Raised("AttributeError")
    ELSE IF \E k \in DOMAIN j.v : j.v[k].t # "obj" THEN Raised("AttributeError")
    ELSE IF \E k \in DOMAIN j.v : cached_at_of(j.v[k]).t # "str"
         THEN Raised("TypeError")
    ELSE Returned([k \in {x \in DOMAIN j.v :
                            StrGreater(cached_at_of(j.v[x]).v, cutoff)}
                      |-> j.v[k]])

\* load_cache: every exception is caught and gives {}
load_cache(file, now) ==
    IF file.kind = "missing" THEN Returned(<<>>)
    ELSE LET r == read_json(file) IN
         IF r.status = "raised" THEN Returned(<<>>)
         ELSE LET cutoff_date == isoformat(StampMinusDays(now, CACHE_EXPIRY_DAYS))
                  c == fresh_entries(r.value, cutoff_date)
              IN  IF c.status = "raised" THEN Returned(<<>>) ELSE c

\* save_cache / save_tmdb_cache: json.dump of the whole map
save_cache(cache) == JsonFile(JObj(cache))

\* load_tmdb_cache: only json.JSONDecodeError and OSError are caught
load_tmdb_cache(file, now) ==
    IF file.kind = "missing" THEN Returned(<<>>)
    ELSE LET r == read_json(file) IN
         IF r.status = "raised"
         THEN (IF r.exc \in {"JSONDecodeError", "OSError"}
               THEN Returned(<<>>) ELSE r)
         ELSE LET cutoff == isoformat(StampMinusDays(now, TMDB_CACHE_DAYS))
              IN  fresh_entries(r.value, cutoff)

\* One item of the history list gives a (date, title) pair when it is a
\* list of at least two values, the first a "%Y-%m-%d" text and the second
\* hashable; anything else is passed over.
history_item_pairs(item) ==
    IF item.t = "list" /\ Len(item.v) >= 2
    THEN IF item.v[1].t = "str" /\ item.v[2].t = "str"
         THEN { <<d, item.v[2].v>> : d \in Range(strptime_date(item.v[1].v)) }
         ELSE {}
    ELSE {}

\* load_release_history: only OSError and json.JSONDecodeError are caught;
\* `for item in data` runs over the keys of a dict and the characters of a
\* str (no item is then a list) and raises TypeError on a number or null.
load_release_history(file) ==
    IF file.kind = "missing" THEN Returned({})
    ELSE LET r == read_json(file) IN
         IF r.status = "raised"
         THEN (IF r.exc \in {"JSONDecodeError", "OSError"}
               THEN Returned({}) ELSE Raised(r.exc))
         ELSE LET data == r.value IN
              IF data.t \in {"num", "null"} THEN Raised("TypeError")
              ELSE IF data.t = "list"
              THEN Returned(UNION { history_item_pairs(data.v[i]) :
                                      i \in DOMAIN data.v })
              ELSE Returned({})

RECURSIVE SetToSeq(_)
SetToSeq(S) ==
    IF S = {} THEN <<>>
    ELSE LET x == CHOOSE y \in S : TRUE IN <<x>> \o SetToSeq(S \ {x})

\* A faulty variant of save_release_history: the pair dated exactly 730 days
\* before today is dropped.
save_release_history_strict(releases, today) ==
    LET cutoff == DateAddDays(today, 0 - RELEASE_HISTORY_MAX_DAYS)
        kept == { p \in releases : DateLess(cutoff, p[1]) }
    IN  JsonFile(JList(SetToSeq(
            { JList(<<JStr(date_isoformat(p[1])), JStr(p[2])>>) : p \in kept })))

\* save_release_history: the pairs dated today - 730 days or later, as
\* [date text, title] items
save_release_history(releases, today) ==
    LET cutoff == DateAddDays(today, 0 - RELEASE_HISTORY_MAX_DAYS)
        kept == { p \in releases : DateLeq(cutoff, p[1]) }
    IN  JsonFile(JList(SetToSeq(
            { JList(<<JStr(date_isoformat(p[1])), JStr(p[2])>>) : p \in kept })))

\* ------------------------------------------------------------------------
\* Titles and URLs: a str is the sequence of its characters (a URL, of its
\* parts), and the regular expressions of the code are computed on it
\* ------------------------------------------------------------------------
UpperChars == <<"A", "B", "C", "D", "E", "F", "G", "H", "I", "J", "K", "L", "M",
                "N", "O", "P", "Q", "R", "S", "T", "U", "V", "W", "X", "Y", "Z">>
LowerChars == <<"a", "b", "c", "d", "e", "f", "g", "h", "i", "j", "k", "l", "m",
                "n", "o", "p", "q", "r", "s", "t", "u", "v", "w", "x", "y", "z">>
DigitChars == {"0", "1", "2", "3", "4", "5", "6", "7", "8", "9"}
DigitSeq == <<"0", "1", "2", "3", "4", "5", "6", "7", "8", "9">>

DigitValue(c) == CHOOSE n \in 0..9 : c = <<"0", "1", "2", "3", "4", "5", "6", "7", "8", "9">>[n + 1]

\* [a-z0-9]
IsLowerAlnum(c) == c \in Range(LowerChars) \cup DigitChars

\* str.lower()
lower_ch(c) ==
    IF c \in Range(UpperChars)
    THEN LowerChars[CHOOSE i \in DOMAIN UpperChars : UpperChars[i] = c]
    ELSE c

lower(str) == [i \in DOMAIN str |-> lower_ch(str[i])]

RECURSIVE lstrip(_, _)
lstrip(str, chars) ==
    IF str # <<>> /\ Head(str) \in chars THEN lstrip(Tail(str), chars) ELSE str

RECURSIVE rstrip(_, _)
rstrip(str, chars) ==
    IF str # <<>> /\ str[Len(str)] \in chars
    THEN rstrip(SubSeq(str, 1, Len(str) - 1), chars) ELSE str

\* str.strip() and str.strip("-")
strip(str) == rstrip(lstrip(str, {" "}), {" "})
strip_dashes(str) == rstrip(lstrip(str, {"-"}), {"-"})

\* the places where \s*\([^)]*\)$ matches: blanks, an opening bracket, no
\* closing bracket up to the one that ends the text
QualifierStarts(str) ==
    { i \in 1..Len(str) :
        \E j \in i..(Len(str) - 1) :
            /\ \A k \in i..(j - 1) : str[k] = " "
            /\ str[j] = "("
            /\ str[Len(str)] = ")"
            /\ \A k \in (j + 1)..(Len(str) - 1) : str[k] # ")" }

\* A faulty variant of strip_qualifier: nothing is removed.
strip_qualifier_noop(str) == str

\* re.sub(r"\s*\([^)]*\)$", "", str): the leftmost match is removed
strip_qualifier(str) ==
    IF QualifierStarts(str) = {} THEN str
    ELSE LET i == CHOOSE k \in QualifierStarts(str) :
                      \A o \in QualifierStarts(str) : k <= o
         IN  SubSeq(str, 1, i - 1)

\* re.sub(<class>+, rep, str), the class given by the marks of its characters
RECURSIVE sub_runs(_, _, _, _)
sub_runs(str, marks, rep, i) ==
    IF i > Len(str) THEN <<>>
    ELSE IF marks[i]
         THEN (IF i > 1 /\ marks[i - 1] THEN <<>> ELSE rep)
                  \o sub_runs(str, marks, rep, i + 1)
         ELSE <<str[i]>> \o sub_runs(str, marks, rep, i + 1)

\* re.sub(r"[\s\-:]+", " ", str)
collapse_separators(str) ==
    sub_runs(str, [i \in DOMAIN str |-> str[i] \in {" ", "-", ":"}], <<" ">>, 1)

\* re.sub(r"[^a-z0-9]+", "-", str)
dash_non_alnum(str) ==
    sub_runs(str, [i \in DOMAIN str |-> ~IsLowerAlnum(str[i])], <<"-">>, 1)

\* Python's `needle in hay` on str
Contains(hay, needle) ==
    \E i \in 0..(Len(hay) - Len(needle)) :
        SubSeq(hay, i + 1, i + Len(needle)) = needle

\* _tmdb_cache_key
tmdb_cache_key(film_title) ==
    LET t1 == strip(strip_qualifier(film_title))
        t2 == strip(collapse_separators(lower(t1)))
        k  == strip_dashes(dash_non_alnum(t2))
    IN  IF k = <<>> THEN <<"u", "n", "k", "n", "o", "w", "n">> ELSE k

\* _normalize_title_for_match
normalize_title_for_match(title) ==
    IF title = <<>> THEN <<>> ELSE strip(collapse_separators(lower(title)))

\* get_base_film_url: url.split('?')[0]
get_base_film_url(url) ==
    IF "?" \in Range(url)
    THEN SubSeq(url, 1, (CHOOSE i \in DOMAIN url :
                            url[i] = "?" /\ \A j \in 1..(i - 1) : url[j] # "?") - 1)
    ELSE url

\* ------------------------------------------------------------------------
\* parse_date
\* ------------------------------------------------------------------------
\* An optional value: <<>> is None, <<x>> is x
None == <<>>
Some(x) == <<x>>

MONTH_NAMES == <<"January", "February", "March", "April", "May", "June", "July",
                 "August", "September", "October", "November", "December">>
MONTH_NAMES_LOWER == <<"january", "february", "march", "april", "may", "june",
                       "july", "august", "september", "october", "november",
                       "december">>

\* A faulty variant of month_number: a name that is no month counts as January.
month_number_guess(month_str) ==
    IF \E i \in 1..12 : month_str \in {MONTH_NAMES[i], MONTH_NAMES_LOWER[i]}
    THEN CHOOSE i \in 1..12 : month_str \in {MONTH_NAMES[i], MONTH_NAMES_LOWER[i]}
    ELSE 1

\* datetime.strptime(month_str, "%B").month: the full month names, in any
\* letter case; 0 stands for ValueError
month_number(month_str) ==
    IF \E i \in 1..12 : month_str \in {MONTH_NAMES[i], MONTH_NAMES_LOWER[i]}
    THEN CHOOSE i \in 1..12 : month_str \in {MONTH_NAMES[i], MONTH_NAMES_LOWER[i]}
    ELSE 0

\* A faulty variant of parse_date: a date before today is moved to the next
\* year whether or not the label names its year.
parse_date_always_roll(text, today) ==
    IF text.full = None /\ text.alt = None THEN None
    ELSE LET explicit == text.full # None
             g     == IF explicit THEN text.full[1] ELSE text.alt[1]
             year  == IF explicit THEN g.year ELSE today[1]
             month == month_number(g.month)
         IN  IF month = 0 THEN None
             ELSE IF ~ValidDate(year, month, g.day) THEN None
             ELSE IF DateLess(<<year, month, g.day>>, today)
                  THEN (IF ValidDate(year + 1, month, g.day)
                        THEN Some(<<year + 1, month, g.day>>) ELSE None)
                  ELSE Some(<<year, month, g.day>>)

\* A date label is given by what the two patterns find in it: full is the
\* groups (day, month, year) of DATE_PATTERN and alt the groups (day, month)
\* of ALT_DATE_PATTERN, each None when the pattern does not match.
parse_date(text, today) ==
    IF text.full = None /\ text.alt = None THEN None
    ELSE LET explicit == text.full # None
             g     == IF explicit THEN text.full[1] ELSE text.alt[1]
             year  == IF explicit THEN g.year ELSE today[1]
             month == month_number(g.month)
         IN  IF month = 0 THEN None
             ELSE IF ~ValidDate(year, month, g.day) THEN None
             ELSE IF DateLess(<<year, month, g.day>>, today) /\ ~explicit
                  THEN (IF ValidDate(year + 1, month, g.day)
                        THEN Some(<<year + 1, month, g.day>>) ELSE None)
                  ELSE Some(<<year, month, g.day>>)

\* The text of a date label is the sequence of its pieces: the fixed words
\* that open a pattern ("Expected:", "Expected at WTW Cinemas from the "),
\* one digit, a run of white space (" "), or a run of letters (a word).
PatternHeads == {"Expected:", "Expected at WTW Cinemas from the "}
IsWord(c) == c \notin DigitChars \cup {" "} \cup PatternHeads

\* the place of the first piece at or after i that is no white space: \s*
RECURSIVE SkipSpaces(_, _)
SkipSpaces(text, i) ==
    IF i <= Len(text) /\ text[i] = " " THEN SkipSpaces(text, i + 1) ELSE i

\* how many digits stand in a row from place i on
RECURSIVE DigitRun(_, _)
DigitRun(text, i) ==
    IF i <= Len(text) /\ text[i] \in DigitChars THEN 1 + DigitRun(text, i + 1) ELSE 0

\* int() of the n digits from place i on
RECURSIVE IntOf(_, _, _)
IntOf(text, i, n) ==
    IF n = 0 THEN 0
    ELSE IntOf(text, i, n - 1) * 10 + DigitValue(text[i + n - 1])

\* DATE_PATTERN.search(text), Expected:\s*(\d{1,2})\s+([A-Za-z]+)\s+(\d{4}):
\* the groups of the leftmost match, None when there is none. A run of
\* three digits or more gives no day: neither one nor two of them are
\* followed by white space.
DATE_PATTERN_search(text) ==
    LET DayAt(i) == SkipSpaces(text, i + 1)
        DayLen(i) == DigitRun(text, DayAt(i))
        MonthAt(i) == SkipSpaces(text, DayAt(i) + DayLen(i))
        YearAt(i) == SkipSpaces(text, MonthAt(i) + 1)
        At(i) == /\ text[i] = "Expected:"
                 /\ DayLen(i) \in {1, 2}
                 /\ MonthAt(i) > DayAt(i) + DayLen(i)
                 /\ MonthAt(i) <= Len(text)
                 /\ IsWord(text[MonthAt(i)])
                 /\ YearAt(i) > MonthAt(i) + 1
                 /\ DigitRun(text, YearAt(i)) >= 4
        starts == { i \in DOMAIN text : At(i) }
    IN  IF starts = {} THEN None
        ELSE LET i == CHOOSE k \in starts : \A o \in starts : k <= o
             IN  Some([day |-> IntOf(text, DayAt(i), DayLen(i)),
                       month |-> text[MonthAt(i)],
                       year |-> IntOf(text, YearAt(i), 4)])

\* ALT_DATE_PATTERN.search(text),
\* Expected at WTW Cinemas from the (\d{1,2})(?:st|nd|rd|th)?\s+([A-Za-z]+)
ALT_DATE_PATTERN_search(text) ==
    LET DayAt(i) == i + 1
        DayLen(i) == DigitRun(text, DayAt(i))
        AfterDay(i) == DayAt(i) + DayLen(i)
        AfterSuffix(i) ==
            IF AfterDay(i) <= Len(text) /\ text[AfterDay(i)] \in {"st", "nd", "rd", "th"}
            THEN AfterDay(i) + 1 ELSE AfterDay(i)
        MonthAt(i) == SkipSpaces(text, AfterSuffix(i))
        At(i) == /\ text[i] = "Expected at WTW Cinemas from the "
                 /\ DayLen(i) \in {1, 2}
                 /\ MonthAt(i) > AfterSuffix(i)
                 /\ MonthAt(i) <= Len(text)
                 /\ IsWord(text[MonthAt(i)])
        starts == { i \in DOMAIN text : At(i) }
    IN  IF starts = {} THEN None
        ELSE LET i == CHOOSE k \in starts : \A o \in starts : k <= o
             IN  Some([day |-> IntOf(text, DayAt(i), DayLen(i)),
                       month |-> text[MonthAt(i)]])

\* parse_date on the text of a label: the two searches, then the dates
parse_date_text(text, today) ==
    parse_date([full |-> DATE_PATTERN_search(text),
                alt |-> ALT_DATE_PATTERN_search(text)], today)

\* ------------------------------------------------------------------------
\* fetch_film_details
\* ------------------------------------------------------------------------
\* A text node or block of a detail page is given by what the code reads of
\* it: its text (body), its length, the terms its lower-cased text holds,
\* the digits of the first "<digits> minutes|mins" in it (None if there is
\* none) and the stripped text after its first colon.
TextLen(t) == t.len
TextHas(t, term) == term \in t.has

\* the index of the first element of q with property P, 0 if there is none
FirstWhere(q, P(_)) ==
    IF \E i \in DOMAIN q : P(q[i])
    THEN CHOOSE i \in DOMAIN q : P(q[i]) /\ \A j \in 1..(i - 1) : ~P(q[j])
    ELSE 0

extract_runtime(page) ==
    LET HasRuntime(t) == t.runtime # None
        i == FirstWhere(page.strings, HasRuntime)
    IN  IF i = 0 THEN <<>> ELSE page.strings[i].runtime[1] \o <<" ", "m", "i", "n">>

extract_cast(page) ==
    LET IsCast(t) == TextHas(t, "starring") /\ Len(t.after_colon) > 3
        i == FirstWhere(page.strings, IsCast)
    IN  IF i = 0 THEN <<>> ELSE page.strings[i].after_colon

extract_synopsis(page) ==
    LET Clean(t) == \A skip \in SYNOPSIS_SKIP_TERMS : ~TextHas(t, skip)
        IsSynopsisP(t) == TextLen(t) > MIN_SYNOPSIS_LENGTH /\ Clean(t)
        IsSynopsisDiv(t) ==
            /\ MIN_SYNOPSIS_LENGTH < TextLen(t)
            /\ TextLen(t) < MAX_SYNOPSIS_LENGTH
            /\ Clean(t)
        i == FirstWhere(page.ps, IsSynopsisP)
        j == FirstWhere(page.divs, IsSynopsisDiv)
    IN  IF i # 0 THEN page.ps[i].body
        ELSE IF j # 0 THEN page.divs[j].body
        ELSE <<>>

\* the parsing half of fetch_film_details
extract_details(page) ==
    [runtime |-> extract_runtime(page), cast |-> extract_cast(page),
     synopsis |-> extract_synopsis(page), director |-> <<>>]

NoDetails == [runtime |-> <<>>, cast |-> <<>>, synopsis |-> <<>>, director |-> <<>>]

\* dict minus one key
WithoutKey(f, key) == [k \in DOMAIN f \ {key} |-> f[k]]

\* A faulty variant of cache_entry: the fields are not kept.
cache_entry_blank(details, now) ==
    JObj([runtime |-> <<>>, cast |-> <<>>, synopsis |-> <<>>, director |-> <<>>,
          cached_at |-> JStr(isoformat(now))])

\* the cache entry written for a fetched page
cache_entry(details, now) == JObj(details @@ [cached_at |-> JStr(isoformat(now))])

\* A faulty variant of cache_lookup_key: the full URL, query included, is the key.
cache_lookup_key_full(film_url) == film_url

\* the key under which a film's details are cached
cache_lookup_key(film_url) == get_base_film_url(film_url)

\* A faulty variant of fetch_film_details: a failed fetch caches the empty bundle.
fetch_film_details_caching_failure(film_url, cache, answer, page, now) ==
    IF film_url = <<>>
    THEN [details |-> NoDetails, cache |-> cache, fetched |-> FALSE, ok |-> FALSE,
          gets |-> 0]
    ELSE LET base_url == cache_lookup_key(film_url) IN
         IF base_url \in DOMAIN cache
         THEN [details |-> WithoutKey(cache[base_url].v, "cached_at"),
               cache |-> cache, fetched |-> FALSE, ok |-> FALSE, gets |-> 0]
         ELSE LET f == fetch_with_retries(HTTP_RETRIES, answer)
                  details == IF f.status = "returned"
                             THEN extract_details(page) ELSE NoDetails
              IN  [details |-> details,
                   cache |-> (base_url :> cache_entry(details, now)) @@ cache,
                   fetched |-> TRUE, ok |-> f.status = "returned",
                   gets |-> Len(f.outcomes)]

\* fetch_film_details(film_url, cache), against a server that answers the
\* GETs of this call with `answer` (one outcome per attempt) and serves
\* `page`. Gives the details returned, the cache as left, and whether
\* and how the page was fetched.
fetch_film_details(film_url, cache, answer, page, now) ==
    IF film_url = <<>>
    THEN [details |-> NoDetails, cache |-> cache, fetched |-> FALSE, ok |-> FALSE,
          gets |-> 0]
    ELSE LET base_url == cache_lookup_key(film_url) IN
         IF base_url \in DOMAIN cache
         THEN [details |-> WithoutKey(cache[base_url].v, "cached_at"),
               cache |-> cache, fetched |-> FALSE, ok |-> FALSE, gets |-> 0]
         ELSE LET f == fetch_with_retries(HTTP_RETRIES, answer) IN
              IF f.status = "returned"
              THEN LET details == extract_details(page) IN
                   [details |-> details,
                    cache |-> (base_url :> cache_entry(details, now)) @@ cache,
                    fetched |-> TRUE, ok |-> TRUE, gets |-> Len(f.outcomes)]
              ELSE [details |-> NoDetails, cache |-> cache, fetched |-> TRUE,
                    ok |-> FALSE, gets |-> Len(f.outcomes)]

\* ------------------------------------------------------------------------
\* The web: the listing page of each cinema and the detail pages, in a few
\* fixed shapes (a world); the pages do not change during a behaviour
\* ------------------------------------------------------------------------
\* the cinemas of CINEMAS, in dict order; 'enabled' is part of the
\* configuration (see Configs)
CINEMAS ==
    << [id |-> "st-austell", name |-> "St Austell",
        url |-> <<"/st-austell/coming-soon/">>],
       [id |-> "newquay", name |-> "Newquay",
        url |-> <<"/newquay/coming-soon/">>],
       [id |-> "wadebridge", name |-> "Wadebridge",
        url |-> <<"/wadebridge/coming-soon/">>],
       [id |-> "truro", name |-> "Truro",
        url |-> <<"/truro/coming-soon/">>] >>

CinemaIds == { CINEMAS[i].id : i \in DOMAIN CINEMAS }

LabelFull(d, m, y) == [full |-> Some([day |-> d, month |-> m, year |-> y]), alt |-> None]
LabelAlt(d, m) == [full |-> None, alt |-> Some([day |-> d, month |-> m])]
LabelOther == [full |-> None, alt |-> None]

\* One div.times of a listing page, by what the code finds around it: the
\* stripped text of the h2 of its parent, the label in its p, the href of
\* the /film/ link of its parent (each None when the element is missing)
Entry(h2, p, a) == [h2 |-> h2, p |-> p, a |-> a]

FilmUrl(slug, screen) == <<"/film/", slug, "/", "?", "screen=", screen>>

TextRuntime ==
    [body |-> <<"r">>, len |-> 11, has |-> {},
     runtime |-> Some(<<"1", "1", "9">>), after_colon |-> <<"r">>]
TextCast ==
    [body |-> <<"c">>, len |-> 24, has |-> {"starring"},
     runtime |-> None, after_colon |-> <<"J", "a", "n", "e">>]
TextShortCast ==
    [body |-> <<"d">>, len |-> 12, has |-> {"starring"},
     runtime |-> None, after_colon |-> <<"J">>]
TextSynopsis ==
    [body |-> <<"s">>, len |-> 120, has |-> {},
     runtime |-> None, after_colon |-> <<"s">>]
TextCookie ==
    [body |-> <<"k">>, len |-> 80, has |-> {"cookie"},
     runtime |-> None, after_colon |-> <<"k">>]
TextBlock ==
    [body |-> <<"b">>, len |-> 300, has |-> {},
     runtime |-> None, after_colon |-> <<"b">>]

PageFull ==
    [strings |-> <<TextCookie, TextRuntime, TextShortCast, TextCast, TextSynopsis>>,
     ps |-> <<TextCookie, TextSynopsis>>, divs |-> <<TextBlock>>]
PageBare ==
    [strings |-> <<TextBlock>>, ps |-> <<>>, divs |-> <<TextCookie, TextBlock>>]

\* the page a detail URL serves: the same film's page differs by screen
PageOf(film_url) ==
    IF film_url[Len(film_url)] = "st-austell" THEN PageFull ELSE PageBare

Worlds == {"shared", "messy"}

Listing(w, cinema_id) ==
    IF w = "shared"
    THEN << Entry(Some(<<"A", "b">>), Some(LabelFull(15, "March", 2026)),
                  Some(FilmUrl("ab", cinema_id))) >>
    ELSE CASE cinema_id = "st-austell" ->
                << Entry(Some(<<"A", " ", "b", " ", "(", "c", ")">>),
                         Some(LabelAlt(5, "April")), Some(FilmUrl("a-b", "st-austell"))),
                   Entry(Some(<<"A", " ", "b", " ", "(", "c", ")">>),
                         Some(LabelAlt(5, "April")), Some(FilmUrl("a-b", "st-austell"))),
                   Entry(None, Some(LabelAlt(5, "April")), Some(FilmUrl("x", "st-austell"))),
                   Entry(Some(<<"(", "c", ")">>), Some(LabelAlt(5, "April")),
                         Some(FilmUrl("c", "st-austell"))) >>
           [] cinema_id = "newquay" ->
                << Entry(Some(<<"a", "-", "b">>), Some(LabelFull(1, "march", 2026)), None),
                   Entry(Some(<<"A", "b">>), Some(LabelAlt(31, "April")),
                         Some(FilmUrl("ab", "newquay"))),
                   Entry(Some(<<"(", "c", ")", " ", "(", "c", ")">>),
                         Some(LabelAlt(1, "March")), Some(<<"/film/", "c", "/">>)),
                   Entry(Some(<<"A", "b">>), None, Some(FilmUrl("ab", "newquay"))),
                   Entry(Some(<<"A", "b">>), Some(LabelOther), Some(FilmUrl("ab", "newquay"))) >>
           [] OTHER -> <<>>

\* ------------------------------------------------------------------------
\* extract_films
\* ------------------------------------------------------------------------
\* the identity of a film tuple for the duplicate check
film_key(f) == <<f.release_date, f.title, f.cinema_name, f.film_url>>

\* A faulty variant of already_listed: the duplicate check never finds anything.
already_listed_never(films, key) == FALSE

\* (release_date, title, cinema_name, film_url) in [(f[0], f[1], f[2], f[3]) ...]
already_listed(films, key) == \E i \in DOMAIN films : film_key(films[i]) = key

\* A faulty variant of entry_gives_record: the title is not looked at.
entry_gives_record_any_title(release_date, title) == release_date # None

\* `if release_date and title`
entry_gives_record(release_date, title) == release_date # None /\ title # <<>>

\* The body of the loop over the div.times elements for entry number i,
\* from acc = [films, cache, fetches]; answers[i] is what the server does
\* if the details of this entry are fetched.
extract_entry(acc, entry, cinema_name, answer, now) ==
    IF entry.h2 = None THEN acc
    ELSE LET title == strip_qualifier(entry.h2[1]) IN
         IF entry.p = None THEN acc
         ELSE LET release_date == parse_date(entry.p[1], now.date)
                  film_url == IF entry.a = None THEN <<>> ELSE entry.a[1]
              IN  IF entry_gives_record(release_date, title)
                  THEN LET page == IF film_url = <<>> THEN PageBare ELSE PageOf(film_url)
                           r == fetch_film_details(film_url, acc.cache, answer, page, now)
                           film == [release_date |-> release_date[1], title |-> title,
                                    cinema_name |-> cinema_name, film_url |-> film_url,
                                    details |-> r.details]
                       IN  [films |-> IF already_listed(acc.films, film_key(film))
                                      THEN acc.films ELSE Append(acc.films, film),
                            cache |-> r.cache,
                            fetches |-> IF r.fetched
                                        THEN Append(acc.fetches,
                                                 [url |-> film_url, ok |-> r.ok,
                                                  gets |-> r.gets, kind |-> "detail"])
                                        ELSE acc.fetches]
                  ELSE acc

RECURSIVE extract_entries(_, _, _, _, _, _)
extract_entries(acc, entries, cinema_name, answers, now, i) ==
    IF i > Len(entries) THEN acc
    ELSE extract_entries(extract_entry(acc, entries[i], cinema_name, answers[i], now),
                         entries, cinema_name, answers, now, i + 1)

\* extract_films(url, cinema_name, cache) on the listing `entries`, against
\* a server that answers the listing GETs with listing_answer. raised is
\* whether the call ends with the exception of the listing fetch.
extract_films(url, cinema_name, cache, entries, listing_answer, answers, now) ==
    LET f == fetch_with_retries(HTTP_RETRIES, listing_answer)
        first == [url |-> url, ok |-> f.status = "returned",
                  gets |-> Len(f.outcomes), kind |-> "listing"]
    IN  IF f.status # "returned"
        THEN [raised |-> TRUE, films |-> <<>>, cache |-> cache, fetches |-> <<first>>]
        ELSE LET acc == extract_entries([films |-> <<>>, cache |-> cache,
                                         fetches |-> <<first>>],
                                        entries, cinema_name, answers, now, 1)
             IN  [raised |-> FALSE, films |-> acc.films, cache |-> acc.cache,
                  fetches |-> acc.fetches]

\* ------------------------------------------------------------------------
\* TMDb enrichment
\* ------------------------------------------------------------------------
\* dict.get(key) with None for a missing key, on a dict given as a function
Get(d, key, default) == IF key \in DOMAIN d THEN d[key] ELSE default

RECURSIVE Join(_, _)
\* sep.join(parts)
Join(parts, sep) ==
    IF parts = <<>> THEN <<>>
    ELSE IF Len(parts) = 1 THEN parts[1]
    ELSE parts[1] \o sep \o Join(Tail(parts), sep)

RECURSIVE Dedup(_)
\* the elements of q in order, each kept the first time it comes
Dedup(q) ==
    IF q = <<>> THEN <<>>
    ELSE LET front == Dedup(SubSeq(q, 1, Len(q) - 1))
             x == q[Len(q)]
         IN  IF x \in Range(front) THEN front ELSE Append(front, x)

\* the elements of q, in order, that are in S
RECURSIVE Filter(_, _)
Filter(q, S) ==
    IF q = <<>> THEN <<>>
    ELSE (IF Head(q) \in S THEN <<Head(q)>> ELSE <<>>) \o Filter(Tail(q), S)

\* A faulty variant of tmdb_score: a title held by the query scores above a
\* title that holds the query.
tmdb_score_held_first(r, norm_search) ==
    LET norm_title == normalize_title_for_match(strip(Get(r, "title", <<>>)))
        release == LET d == Get(r, "release_date", <<>>)
                   IN  SubSeq(d, 1, IF Len(d) < 4 THEN Len(d) ELSE 4)
        year == IF release = <<>> THEN 0
                ELSE DigitValue(release[1]) * 1000 + DigitValue(release[2]) * 100
                       + DigitValue(release[3]) * 10 + DigitValue(release[4])
    IN  IF Contains(norm_search, norm_title) THEN 90
        ELSE IF Contains(norm_title, norm_search) THEN 30
        ELSE IF Len(release) = 4 /\ Range(release) \subseteq DigitChars
        THEN (IF year >= 2020 THEN 50 ELSE 10)
        ELSE 10

\* the score of one candidate that is no exact match
tmdb_score(r, norm_search) ==
    LET norm_title == normalize_title_for_match(strip(Get(r, "title", <<>>)))
        release == LET d == Get(r, "release_date", <<>>)
                   IN  SubSeq(d, 1, IF Len(d) < 4 THEN Len(d) ELSE 4)
        year == IF release = <<>> THEN 0
                ELSE DigitValue(release[1]) * 1000 + DigitValue(release[2]) * 100
                       + DigitValue(release[3]) * 10 + DigitValue(release[4])
    IN  IF Contains(norm_title, norm_search) THEN 90
        ELSE IF Contains(norm_search, norm_title) THEN 30
        ELSE IF Len(release) = 4 /\ Range(release) \subseteq DigitChars
        THEN (IF year >= 2020 THEN 50 ELSE 10)
        ELSE 10

\* _pick_best_tmdb_result: None for no result at all
pick_best_tmdb_result(results, search_title) ==
    IF results = <<>> THEN None
    ELSE IF search_title = <<>> THEN Some(results[1])
    ELSE LET norm_search == normalize_title_for_match(search_title)
             Exact(r) == normalize_title_for_match(strip(Get(r, "title", <<>>)))
                             = norm_search
             Score(i) == tmdb_score(results[i], norm_search)
         IN  IF norm_search = <<>> THEN Some(results[1])
             ELSE IF \E i \in DOMAIN results :
                        /\ Exact(results[i])
                 THEN Some(results[FirstWhere(results, Exact)])
             ELSE Some(results[CHOOSE i \in DOMAIN results :
                          /\ \A j \in DOMAIN results : Score(j) <= Score(i)
                          /\ \A j \in 1..(i - 1) : Score(j) < Score(i)])

GENRE_MAP ==
    (28 :> <<"Action">>) @@ (12 :> <<"Adventure">>) @@ (16 :> <<"Animation">>)
    @@ (35 :> <<"Comedy">>) @@ (80 :> <<"Crime">>) @@ (99 :> <<"Documentary">>)
    @@ (18 :> <<"Drama">>) @@ (10751 :> <<"Family">>) @@ (14 :> <<"Fantasy">>)
    @@ (36 :> <<"History">>) @@ (27 :> <<"Horror">>) @@ (10402 :> <<"Music">>)
    @@ (9648 :> <<"Mystery">>) @@ (10749 :> <<"Romance">>)
    @@ (878 :> <<"Science Fiction">>) @@ (10770 :> <<"TV Movie">>)
    @@ (53 :> <<"Thriller">>) @@ (10752 :> <<"War">>) @@ (37 :> <<"Western">>)

\* the empty result stored for a title that could not be matched
negative_entry(now) ==
    JObj([overview |-> <<>>, genres |-> <<>>, vote_average |-> None,
          director |-> <<>>, cast |-> <<>>, cached_at |-> JStr(isoformat(now))])

\* the fields taken from the detail response `movie` of candidate `chosen`
tmdb_fields(movie, chosen) ==
    LET genre_list == Get(movie, "genres", <<>>)
        with_name == Filter(genre_list,
                            { g \in Range(genre_list) : Get(g, "name", <<>>) # <<>> })
        names == [i \in DOMAIN with_name |-> strip(with_name[i]["name"])]
        genre_ids == IF Get(movie, "genre_ids", <<>>) # <<>>
                     THEN movie["genre_ids"] ELSE Get(chosen, "genre_ids", <<>>)
        mapped == [i \in DOMAIN Filter(genre_ids, DOMAIN GENRE_MAP)
                     |-> GENRE_MAP[Filter(genre_ids, DOMAIN GENRE_MAP)[i]]]
        credits == Get(movie, "credits", <<>>)
        crew == Get(credits, "crew", <<>>)
        directors == { i \in DOMAIN crew : strip(Get(crew[i], "job", <<>>)) = <<"Director">> }
        crew_names == [i \in DOMAIN crew |-> strip(Get(crew[i], "name", <<>>))]
        director_names ==
            Dedup(Filter(crew_names, { crew_names[i] : i \in directors } \ {<<>>}))
        cast6 == LET c == Get(credits, "cast", <<>>)
                 IN  SubSeq(c, 1, IF Len(c) < 6 THEN Len(c) ELSE 6)
        cast_all == [i \in DOMAIN cast6 |-> strip(Get(cast6[i], "name", <<>>))]
        cast_names == Filter(cast_all, Range(cast_all) \ {<<>>})
    IN  [overview |-> strip(Get(movie, "overview", <<>>)),
         genres |-> IF names # <<>> THEN names ELSE mapped,
         vote_average |-> Get(movie, "vote_average", None),
         director |-> Join(SubSeq(director_names, 1,
                             IF Len(director_names) < 3 THEN Len(director_names) ELSE 3),
                           <<",", " ">>),
         cast |-> Join(cast_names, <<",", " ">>)]

\* the result of a call: what is returned ({} is the function of no key),
\* the cache as left, and what the call did on the way (sleeps and GETs)
EnrichResult(extra, cache, did) == [extra |-> extra, cache |-> cache, did |-> did]

\* A faulty variant of enrich_cache_hit: a cached negative result counts as a miss.
enrich_cache_hit_nonempty(cache, cache_key) ==
    /\ cache_key \in DOMAIN cache
    /\ Get(cache[cache_key].v, "vote_average", None) # None

\* `if cache_key in cache`
enrich_cache_hit(cache, cache_key) == cache_key \in DOMAIN cache

\* enrich_film_tmdb(film_title, film_url, api_key, cache), against a TMDb
\* whose search call does `search` ([status, results]) and whose detail
\* call does `detail` ([status, movie])
enrich_film_tmdb(film_title, cache, search, detail, now) ==
    LET search_title == strip(strip_qualifier(film_title))
        cache_key == tmdb_cache_key(film_title)
        negative == (cache_key :> negative_entry(now)) @@ cache
    IN  IF search_title = <<>> THEN EnrichResult(<<>>, cache, <<>>)
        ELSE IF enrich_cache_hit(cache, cache_key)
        THEN LET entry == cache[cache_key].v IN
             EnrichResult([overview |-> Get(entry, "overview", <<>>),
                           genres |-> Get(entry, "genres", <<>>),
                           vote_average |-> Get(entry, "vote_average", None),
                           director |-> Get(entry, "director", <<>>),
                           cast |-> Get(entry, "cast", <<>>)],
                          cache, <<>>)
        ELSE IF search.status # "ok"
        THEN EnrichResult(<<>>, negative, <<"sleep", "tmdb_search">>)
        ELSE IF search.results = <<>>
        THEN EnrichResult(<<>>, negative, <<"sleep", "tmdb_search">>)
        ELSE LET chosen == pick_best_tmdb_result(search.results, search_title)[1] IN
             IF DOMAIN chosen = {}
             THEN EnrichResult(<<>>, cache, <<"sleep", "tmdb_search">>)
             ELSE IF Get(chosen, "id", 0) = 0
             THEN EnrichResult(<<>>, cache, <<"sleep", "tmdb_search">>)
             ELSE IF detail.status # "ok"
             THEN EnrichResult(<<>>, negative, <<"sleep", "tmdb_search", "sleep", "tmdb_detail">>)
             ELSE LET out == tmdb_fields(detail.movie, chosen) IN
                  EnrichResult(out,
                               (cache_key :> JObj(out @@ [cached_at |-> JStr(isoformat(now))]))
                                   @@ cache,
                               <<"sleep", "tmdb_search", "sleep", "tmdb_detail">>)

\* ------------------------------------------------------------------------
\* escape_and_fold_ical_text
\* ------------------------------------------------------------------------
ICAL_LINE_LENGTH == 75

\* str.replace(c, rep) for a single character c: every c gives rep, every
\* other character itself (computed by halves)
RECURSIVE replace_char(_, _, _)
replace_char(str, c, rep) ==
    IF str = <<>> THEN <<>>
    ELSE IF Len(str) = 1 THEN (IF str[1] = c THEN rep ELSE str)
    ELSE replace_char(SubSeq(str, 1, Len(str) \div 2), c, rep)
             \o replace_char(SubSeq(str, (Len(str) \div 2) + 1, Len(str)), c, rep)

\* A faulty variant of escape_ical_text: the newlines are replaced before the
\* backslashes are doubled.
escape_newlines_first(text) ==
    replace_char(replace_char(text, "\n", <<"\\", "n">>), "\\", <<"\\", "\\">>)

\* text.replace('\\', '\\\\') and then .replace('\n', '\\n')
escape_ical_text(text) ==
    replace_char(replace_char(text, "\\", <<"\\", "\\">>), "\n", <<"\\", "n">>)

\* s[:n] and s[n:]
Take(str, n) == SubSeq(str, 1, IF Len(str) < n THEN Len(str) ELSE n)
Drop(str, n) == SubSeq(str, n + 1, Len(str))

\* A faulty variant of fold_continuation: a continuation line takes as many
\* characters as the first line.
RECURSIVE fold_continuation_wide(_)
fold_continuation_wide(remaining) ==
    IF remaining = <<>> THEN <<>>
    ELSE << <<" ">> \o Take(remaining, ICAL_LINE_LENGTH) >>
             \o fold_continuation_wide(Drop(remaining, ICAL_LINE_LENGTH))

\* the `while remaining` loop: the continuation lines, in order
RECURSIVE fold_continuation(_)
fold_continuation(remaining) ==
    IF remaining = <<>> THEN <<>>
    ELSE << <<" ">> \o Take(remaining, ICAL_LINE_LENGTH - 1) >>
             \o fold_continuation(Drop(remaining, ICAL_LINE_LENGTH - 1))

escape_and_fold_ical_text(text, prefix) ==
    LET full_line == prefix \o escape_ical_text(text) IN
    IF Len(full_line) <= ICAL_LINE_LENGTH THEN full_line
    ELSE Join(<<Take(full_line, ICAL_LINE_LENGTH)>>
                  \o fold_continuation(Drop(full_line, ICAL_LINE_LENGTH)),
              <<"\n">>)

\* ------------------------------------------------------------------------
\* Configuration and validate_configuration
\* ------------------------------------------------------------------------
\* time_pattern.match(t) for ^([0-1]?[0-9]|2[0-3]):[0-5][0-9]$  ($ also
\* matches before one final newline)
time_pattern_match(t) ==
    LET s == IF t # <<>> /\ t[Len(t)] = "\n" THEN SubSeq(t, 1, Len(t) - 1) ELSE t
        Minutes(i) == /\ s[i] = ":"
                      /\ s[i + 1] \in {"0", "1", "2", "3", "4", "5"}
                      /\ s[i + 2] \in DigitChars
    IN  \/ /\ Len(s) = 4
           /\ s[1] \in DigitChars
           /\ Minutes(2)
        \/ /\ Len(s) = 5
           /\ \/ s[1] \in {"0", "1"} /\ s[2] \in DigitChars
              \/ s[1] = "2" /\ s[2] \in {"0", "1", "2", "3"}
           /\ Minutes(3)

\* the first alarm of the list, in order, that validation rejects (0: none)
first_bad_alarm(alarms) ==
    LET Bad(alarm) ==
            \/ "time" \in DOMAIN alarm /\ ~time_pattern_match(alarm["time"])
            \/ "days_before" \notin DOMAIN alarm /\ "hours_before" \notin DOMAIN alarm
    IN  IF \E i \in DOMAIN alarms : Bad(alarms[i])
        THEN FirstWhere(alarms, Bad) ELSE 0

\* A faulty variant of validate_configuration: nothing is rejected.
validate_nothing(config) == Returned("")

\* validate_configuration(): Raised("ValueError") on the first failed check
validate_configuration(config) ==
    LET notifications == config.NOTIFICATIONS IN
    IF /\ Get(notifications, "enabled", FALSE)
       /\ ~time_pattern_match(config.NOTIFICATION_TIME)
    THEN Raised("ValueError")
    ELSE IF /\ Get(notifications, "enabled", FALSE)
            /\ first_bad_alarm(Get(notifications, "alarms", <<>>)) # 0
    THEN Raised("ValueError")
    ELSE IF config.CACHE_EXPIRY_DAYS < 1 THEN Raised("ValueError")
    ELSE IF ~\E id \in CinemaIds : config.enabled[id] THEN Raised("ValueError")
    ELSE Returned("")

Time(h1, h2, m1, m2) == <<h1, h2, ":", m1, m2>>

\* the configuration as shipped: every cinema enabled, no notifications
DefaultConfig ==
    [enabled |-> [id \in CinemaIds |-> TRUE],
     NOTIFICATION_TIME |-> Time("0", "9", "0", "0"),
     NOTIFICATIONS |-> [enabled |-> FALSE, alarms |-> <<>>],
     CACHE_EXPIRY_DAYS |-> CACHE_EXPIRY_DAYS]

Notify(alarms) == [enabled |-> TRUE, alarms |-> alarms]

\* configurations that validation accepts
GoodConfigs ==
    { DefaultConfig,
      [DefaultConfig EXCEPT !.enabled = [id \in CinemaIds |-> id \in {"newquay", "truro"}],
                            !.NOTIFICATION_TIME = <<"9", ":", "0", "0">>,
                            !.NOTIFICATIONS = Notify(<<[days_before |-> 1],
                                                       [time |-> Time("2", "3", "5", "9"),
                                                        hours_before |-> 2]>>)],
      [DefaultConfig EXCEPT !.NOTIFICATION_TIME = Time("2", "5", "0", "0"),
                            !.NOTIFICATIONS = [enabled |-> FALSE,
                                               alarms |-> <<[time |-> <<"x">>]>>]] }

\* configurations that validation rejects, one for each reason
BadConfigs ==
    { [DefaultConfig EXCEPT !.enabled = [id \in CinemaIds |-> FALSE]],
      [DefaultConfig EXCEPT !.CACHE_EXPIRY_DAYS = 0],
      [DefaultConfig EXCEPT !.NOTIFICATION_TIME = Time("2", "4", "0", "0"),
                            !.NOTIFICATIONS = Notify(<<[days_before |-> 1]>>)],
      [DefaultConfig EXCEPT !.NOTIFICATION_TIME = Time("0", "9", "6", "0"),
                            !.NOTIFICATIONS = Notify(<<>>)],
      [DefaultConfig EXCEPT !.NOTIFICATIONS =
           Notify(<<[days_before |-> 1], [time |-> <<"9", "0", "0">>, days_before |-> 1]>>)],
      [DefaultConfig EXCEPT !.NOTIFICATIONS =
           Notify(<<[time |-> Time("1", "8", "0", "0")]>>)] }

Configs == GoodConfigs \cup BadConfigs

\* ------------------------------------------------------------------------
\* Inputs of the load operations
\* ------------------------------------------------------------------------
Stamp(d, us) == [date |-> d, h |-> 9, mi |-> 0, s |-> 0, us |-> us]

\* the clock at load time: on a whole second and off it
LoadNows == { Stamp(<<2026, 3, 10>>, us) : us \in {0, 250000} }

\* times around both expiry cut-offs
SampleStamps(now) ==
    { [now EXCEPT !.date = DateAddDays(now.date, 0 - k), !.us = us] :
        k \in {0, 6, 7, 8, 29, 30, 31}, us \in {0, 249999, 250000, 250001} }

EmptyDetails == NoDetails

\* entries of a cache file: stamped, without cached_at, with a cached_at
\* that is no string, and a value that is no object
EntryShapes(now) ==
    { JObj(EmptyDetails @@ [cached_at |-> JStr(isoformat(ts))]) :
        ts \in SampleStamps(now) }
    \cup { JObj(EmptyDetails),
           JObj(EmptyDetails @@ [cached_at |-> JNum(0)]),
           JStr(<<>>) }

StoreKeys == { <<"k1">>, <<"k2">> }

BrokenFiles ==
    { MissingFile, UnreadableFile, UndecodableFile, NotJsonFile,
      JsonFile(JList(<<>>)), JsonFile(JNum(0)), JsonFile(JStr(<<>>)),
      JsonFile(JNull) }

CacheFiles(now) ==
    BrokenFiles
    \cup { JsonFile(JObj(f)) :
             f \in UNION { [K -> EntryShapes(now)] : K \in SUBSET StoreKeys } }

HistoryItems ==
    { JList(<<JStr(date_isoformat(<<2026, 3, 1>>)), JStr(<<"a">>)>>),
      JList(<<JStr(date_isoformat(<<2025, 2, 28>>)), JStr(<<"b">>)>>),
      JList(<<JStr(date_isoformat(<<2025, 2, 29>>)), JStr(<<"a">>)>>),
      JList(<<JStr(<<110>>), JStr(<<"a">>)>>),
      JList(<<JNum(0), JStr(<<"a">>)>>),
      JList(<<JStr(date_isoformat(<<2026, 3, 1>>)), JList(<<>>)>>),
      JList(<<JStr(date_isoformat(<<2026, 3, 1>>))>>),
      JStr(<<>>) }

HistoryFiles ==
    BrokenFiles
    \cup { JsonFile(JObj(<<>>)) }
    \cup { JsonFile(JList(q)) :
             q \in UNION { [1..n -> HistoryItems] : n \in 1..2 } }

\* ------------------------------------------------------------------------
\* SpecLoad: one call of each load operation on any store
\* ------------------------------------------------------------------------
LoadIdle ==
    [op |-> "idle", file |-> MissingFile, now |-> Stamp(<<2026, 3, 10>>, 0),
     result |-> Returned(<<>>)]

LoadCacheCall ==
    /\ ld.op = "idle"
    /\ \E now \in LoadNows : \E file \in CacheFiles(now) :
          ld' = [op |-> "load_cache", file |-> file, now |-> now,
                 result |-> load_cache(file, now)]

LoadTmdbCacheCall ==
    /\ ld.op = "idle"
    /\ \E now \in LoadNows : \E file \in CacheFiles(now) :
          ld' = [op |-> "load_tmdb_cache", file |-> file, now |-> now,
                 result |-> load_tmdb_cache(file, now)]

LoadReleaseHistoryCall ==
    /\ ld.op = "idle"
    /\ \E now \in LoadNows : \E file \in HistoryFiles :
          ld' = [op |-> "load_release_history", file |-> file, now |-> now,
                 result |-> load_release_history(file)]

\* ------------------------------------------------------------------------
\* SpecDate: one call of parse_date on a label of either grammar, or on
\* another text, on some day
\* ------------------------------------------------------------------------
\* the decimal digits of n, and n in four digits
RECURSIVE DecimalText(_)
DecimalText(n) ==
    IF n < 10 THEN <<DigitSeq[n + 1]>>
    ELSE Append(DecimalText(n \div 10), DigitSeq[(n % 10) + 1])

YearText(y) ==
    <<DigitSeq[(y \div 1000) + 1], DigitSeq[((y \div 100) % 10) + 1],
      DigitSeq[((y \div 10) % 10) + 1], DigitSeq[(y % 10) + 1]>>

\* "Expected: D Month YYYY"
FullLabelText(d, month, y) ==
    <<"Expected:", " ">> \o DecimalText(d) \o <<" ", month, " ">> \o YearText(y)

\* "Expected at WTW Cinemas from the D<suffix> Month"
AltLabelText(d, suffix, month) ==
    <<"Expected at WTW Cinemas from the ">> \o DecimalText(d) \o suffix
        \o <<" ", month>>

LabelDays == {0, 1, 28, 29, 30, 31, 32}
LabelMonths == {"January", "February", "april", "December", "Sept", "Soon"}
LabelYears == {0, 2023, 2024, 2026}
LabelSuffixes == { <<>>, <<"st">>, <<"th">> }

\* texts of neither grammar, or not quite of one
OtherLabels ==
    { <<>>,
      <<"Coming", " ", "Soon">>,
      <<"Expected:", " ", "1", "0", "0", " ", "March", " ", "2", "0", "2", "6">>,
      <<"Expected:", " ", "1", "0", " ", "March", " ", "2", "0", "2">>,
      <<"Expected:", " ", "March", " ", "2", "0", "2", "6">>,
      <<"Expected at WTW Cinemas from the ", " ", "1", "st", " ", "March">>,
      <<"Expected at WTW Cinemas from the ", "1", "xx", " ", "March">>,
      <<"Expected at WTW Cinemas from the ", "1", "0", "1", "st", " ", "March">>,
      <<"Expected at WTW Cinemas from the ", "1", "st", "March">>,
      <<"Expected at WTW Cinemas from the ", "th", " ", "March">> }

\* the day of the call: after 29 February of a leap year, on it, in the
\* years around it, and at the end of a year
Todays == { <<2024, 3, 1>>, <<2024, 2, 29>>, <<2023, 12, 31>>, <<2025, 4, 30>>,
            <<2026, 3, 10>> }

ParseIdle ==
    [kind |-> "idle", text |-> <<>>, day |-> 0, month |-> "", year |-> 0,
     today |-> <<2026, 3, 10>>, result |-> None]

ParseFullLabel ==
    /\ pd.kind = "idle"
    /\ \E d \in LabelDays, month \in LabelMonths, y \in LabelYears, today \in Todays :
          pd' = [kind |-> "full", text |-> FullLabelText(d, month, y), day |-> d,
                 month |-> month, year |-> y, today |-> today,
                 result |-> parse_date_text(FullLabelText(d, month, y), today)]

ParseAltLabel ==
    /\ pd.kind = "idle"
    /\ \E d \in LabelDays, suffix \in LabelSuffixes, month \in LabelMonths,
          today \in Todays :
          pd' = [kind |-> "alt", text |-> AltLabelText(d, suffix, month), day |-> d,
                 month |-> month, year |-> 0, today |-> today,
                 result |-> parse_date_text(AltLabelText(d, suffix, month), today)]

ParseOtherText ==
    /\ pd.kind = "idle"
    /\ \E text \in OtherLabels, today \in Todays :
          pd' = [kind |-> "other", text |-> text, day |-> 0, month |-> "", year |-> 0,
                 today |-> today, result |-> parse_date_text(text, today)]

\* ------------------------------------------------------------------------
\* SpecFold: one call of escape_and_fold_ical_text on a text of any length
\* up to MaxTextLen and one of the prefixes
\* ------------------------------------------------------------------------
\* texts by the character at each place: letters only, blanks only,
\* backslashes among letters, newlines among letters, and all of them
\* (with a backslash right before an n)
TextPatterns == {"plain", "blank", "slashes", "newlines", "mixed"}

PatternChar(pattern, i) ==
    CASE pattern = "plain" -> "a"
      [] pattern = "blank" -> " "
      [] pattern = "slashes" -> IF i % 2 = 1 THEN "\\" ELSE "a"
      [] pattern = "newlines" -> IF i % 5 = 0 THEN "\n" ELSE "a"
      [] OTHER -> <<"\\", "n", "\n", " ">>[(i % 4) + 1]

PatternText(pattern, n) == [i \in 1..n |-> PatternChar(pattern, i)]

\* no prefix (the default) and the one of make_ics_event
FoldPrefixes ==
    { <<>>, <<"D", "E", "S", "C", "R", "I", "P", "T", "I", "O", "N", ":">> }

FoldIdle == [phase |-> "idle", text |-> <<>>, prefix |-> <<>>, out |-> <<>>]

FoldCall ==
    /\ fo.phase = "idle"
    /\ \E pattern \in TextPatterns, n \in 0..MaxTextLen, prefix \in FoldPrefixes :
          fo' = [phase |-> "called", text |-> PatternText(pattern, n),
                 prefix |-> prefix,
                 out |-> escape_and_fold_ical_text(PatternText(pattern, n), prefix)]

\* ------------------------------------------------------------------------
\* SpecFetch: one call of fetch_with_retries, attempt by attempt
\* ------------------------------------------------------------------------
FetchCall ==
    /\ fetch.status = "idle"
    /\ \E n \in 0..MaxRetries : fetch' = fetch_begin(n)

FetchAttempt ==
    /\ fetch.status = "running"
    /\ \E o \in Outcomes : fetch' = fetch_attempt(fetch, o)

\* ------------------------------------------------------------------------
\* main
\* ------------------------------------------------------------------------
mainVars ==
    <<conf, world, api_key, disk, clock, run, pc, film_cache, loaded, all_films, vi,
      tmdb_cache, todo, log, scraped, faults>>

vars == <<fetch, ld, en, pd, fo, fc, conf, world, api_key, disk, clock, run, pc, film_cache,
          loaded, all_films, vi, tmdb_cache, todo, log, scraped, faults>>

\* what the server does on the GETs of one fetch_with_retries call
AOk == [i \in 1..HTTP_RETRIES |-> "ok"]
ARetry == [i \in 1..HTTP_RETRIES |-> IF i = 1 THEN "transport_error" ELSE "ok"]
AFail == [i \in 1..HTTP_RETRIES |-> IF i = 2 THEN "transport_error" ELSE "http_error"]
ListingAnswers == {AOk, ARetry, AFail}

\* what TMDb answers to the search for a title, and to the detail call
TmdbCatalog(search_title) ==
    << [id |-> 1, title |-> search_title \o <<" ", "2">>,
        release_date |-> <<"2", "0", "2", "4", "-", "0", "1", "-", "0", "1">>,
        genre_ids |-> <<28>>],
       [id |-> 2, title |-> search_title,
        release_date |-> <<"1", "9", "9", "9", "-", "0", "1", "-", "0", "1">>,
        genre_ids |-> <<18, 1>>] >>
TmdbMovie ==
    [genres |-> <<>>, overview |-> <<" ", "o">>, vote_average |-> <<7>>,
     credits |-> [crew |-> <<[job |-> <<"Director">>, name |-> <<"D">>],
                             [job |-> <<"Writer">>, name |-> <<"W">>]>>,
                  cast |-> <<[name |-> <<"X">>], [name |-> <<"Y">>]>>]]
SearchOk(results) == [status |-> "ok", results |-> results]
SearchError == [status |-> "error", results |-> <<>>]
DetailOk(movie) == [status |-> "ok", movie |-> movie]
DetailError == [status |-> "error", movie |-> <<>>]

\* {k: v for k, v in CINEMAS.items() if v["enabled"]}
enabled_cinemas(cfg) == SelectSeq(CINEMAS, LAMBDA c : cfg.enabled[c.id])

Effect(op, url, ok, gets) ==
    [run |-> run, op |-> op, url |-> url, ok |-> ok, gets |-> gets]

\* A faulty variant of on_scrape_error: the first venue that fails ends the run
\* and drops what was found.
on_scrape_error_abort(films) == [all_films |-> <<>>, abort |-> TRUE]

\* `except Exception` around extract_films in the loop over the venues
on_scrape_error(films) == [all_films |-> films, abort |-> FALSE]

\* A faulty variant of unique_by_key: one item for each record.
unique_by_key_per_record(films) ==
    [i \in DOMAIN films |->
        [key |-> tmdb_cache_key(films[i].title), title |-> films[i].title,
         film_url |-> films[i].film_url, indices |-> {i}]]

\* unique_by_key: one item per TMDb key in order of first appearance, with
\* the title and URL of the first film and the indices of all of them
unique_by_key(films) ==
    LET key_of == [i \in DOMAIN films |-> tmdb_cache_key(films[i].title)]
        keys == Dedup(key_of)
    IN  [j \in DOMAIN keys |->
            LET indices == { i \in DOMAIN films : key_of[i] = keys[j] }
                first == CHOOSE i \in indices : \A k \in indices : i <= k
            IN  [key |-> keys[j], title |-> films[first].title,
                 film_url |-> films[first].film_url, indices |-> indices]]

\* A faulty variant of apply_extra: director and cast are taken from `extra`
\* also when they are empty there.
apply_extra_blank_names(film_details, extra) ==
    LET d1 == IF extra.overview # <<>>
              THEN ("overview" :> extra.overview) @@ film_details ELSE film_details
        d2 == ("genres" :> extra.genres) @@ d1
        d3 == IF extra.vote_average # None
              THEN ("vote_average" :> extra.vote_average) @@ d2 ELSE d2
        d4 == ("director" :> extra.director) @@ d3
    IN  ("cast" :> extra.cast) @@ d4

\* film_details with the fields of a non-empty `extra` laid over it
apply_extra(film_details, extra) ==
    LET d1 == IF extra.overview # <<>>
              THEN ("overview" :> extra.overview) @@ film_details ELSE film_details
        d2 == ("genres" :> extra.genres) @@ d1
        d3 == IF extra.vote_average # None
              THEN ("vote_average" :> extra.vote_average) @@ d2 ELSE d2
        d4 == IF extra.director # <<>> THEN ("director" :> extra.director) @@ d3 ELSE d3
    IN  IF extra.cast # <<>> THEN ("cast" :> extra.cast) @@ d4 ELSE d4

\* the order of the cinema names as Python compares str
NameRank(name) ==
    CHOOSE i \in 1..4 : <<"Newquay", "St Austell", "Truro", "Wadebridge">>[i] = name

RECURSIVE sort_films(_)
\* all_films.sort(key=lambda x: (x[0], x[2])): stable
sort_films(films) ==
    IF films = <<>> THEN <<>>
    ELSE LET front == sort_films(SubSeq(films, 1, Len(films) - 1))
             x == films[Len(films)]
             Leq(a, b) == \/ DateLess(a.release_date, b.release_date)
                          \/ /\ a.release_date = b.release_date
                             /\ NameRank(a.cinema_name) <= NameRank(b.cinema_name)
             k == Cardinality({ i \in DOMAIN front : Leq(front[i], x) })
         IN  SubSeq(front, 1, k) \o <<x>> \o SubSeq(front, k + 1, Len(front))

\* ------------------------------------------------------------------------
\* make_ics_event. A text is a sequence of pieces; the words the program
\* writes itself ("Starring: ", the name of a cinema) are one piece each.
\* ------------------------------------------------------------------------
\* the place of the first c in str, 0 if there is none
Find(str, c) ==
    IF c \in Range(str) THEN CHOOSE i \in DOMAIN str : str[i] = c /\ c \notin Range(SubSeq(str, 1, i - 1))
    ELSE 0

RECURSIVE Split(_, _)
\* str.split(c)
Split(str, c) ==
    LET i == Find(str, c) IN
    IF i = 0 THEN <<str>>
    ELSE <<SubSeq(str, 1, i - 1)>> \o Split(SubSeq(str, i + 1, Len(str)), c)

\* _format_runtime_display: "119 min" -> "1h 59min", "45 min" -> "45 min"
format_runtime_display(runtime_str) ==
    IF runtime_str = <<>> THEN <<>>
    ELSE LET low == lower(runtime_str)
             Starts(i) ==
                 /\ low[i] \in DigitChars
                 /\ LET k == SkipSpaces(low, i + DigitRun(low, i))
                    IN  k + 2 <= Len(low) /\ SubSeq(low, k, k + 2) = <<"m", "i", "n">>
             found == { i \in DOMAIN low : Starts(i) }
         IN  IF found = {} THEN strip(runtime_str)
             ELSE LET i == CHOOSE j \in found : \A k \in found : j <= k
                      minutes == IntOf(low, i, DigitRun(low, i))
                      h == minutes \div 60
                      mins == minutes % 60
                  IN  IF minutes >= 60
                      THEN IF mins # 0
                           THEN DecimalText(h) \o <<"h", " ">> \o DecimalText(mins)
                                    \o <<"m", "i", "n">>
                           ELSE DecimalText(h) \o <<"h">>
                      ELSE DecimalText(minutes) \o <<" ", "m", "i", "n">>

\* _stars_from_rating for a whole-number rating: "*" is the filled star,
\* "o" the empty one; round() rounds a half to the even neighbour
stars_from_rating(vote_average) ==
    IF vote_average = None THEN <<>>
    ELSE LET v == vote_average[1]
             half == v \div 2
             rounded == IF v % 2 = 0 THEN half
                        ELSE IF half % 2 = 0 THEN half ELSE half + 1
             full == IF rounded > 5 THEN 5 ELSE rounded
         IN  IF v <= 0 THEN <<"o", "o", "o", "o", "o">>
             ELSE IF v >= 10 THEN <<"*", "*", "*", "*", "*">>
             ELSE [i \in 1..5 |-> IF i <= full THEN "*" ELSE "o"]

\* the name of one part of a cast list: the text before " (Character)"
\* when the part has that shape, the part itself otherwise
cast_part_name(part) ==
    LET k == Find(part, "(")
        rest == SubSeq(part, k, Len(part))
        j == Find(rest, ")")
    IN  IF k = 0 THEN strip(part)
        ELSE IF k > 1 /\ j # 0 /\ strip(SubSeq(rest, j + 1, Len(rest))) = <<>>
        THEN strip(SubSeq(part, 1, k - 1))
        ELSE part

\* _cast_first_six_names
cast_first_six_names(cast_str) ==
    IF cast_str = <<>> THEN <<>>
    ELSE LET parts == Split(cast_str, ",")
             stripped == [i \in DOMAIN parts |-> strip(parts[i])]
             kept == SelectSeq(stripped, LAMBDA p : p # <<>>)
             names == Dedup([i \in DOMAIN kept |-> cast_part_name(kept[i])])
         IN  Join(SubSeq(names, 1, IF Len(names) < 6 THEN Len(names) ELSE 6),
                  <<",", " ">>)

\* generate_alarm: the description and the trigger of the VALARM
generate_alarm(alarm_config, release_date, config) ==
    LET time_str == Get(alarm_config, "time", config.NOTIFICATION_TIME)
        time_parts == Split(time_str, ":")
        hours == IntOf(time_parts[1], 1, Len(time_parts[1]))
        minutes == IF Len(time_parts) > 1
                   THEN IntOf(time_parts[2], 1, Len(time_parts[2])) ELSE 0
        at(days) == <<"TRIGGER;VALUE=DATE-TIME:", DateAddDays(release_date, 0 - days),
                      hours, minutes>>
    IN  [description |-> Get(alarm_config, "description", <<"Film Release Reminder">>),
         trigger |->
             IF "days_before" \in DOMAIN alarm_config THEN at(alarm_config["days_before"])
             ELSE IF "hours_before" \in DOMAIN alarm_config
             THEN IF alarm_config["hours_before"] < 0
                  THEN <<"TRIGGER:", "PT", 0 - alarm_config["hours_before"], "H">>
                  ELSE <<"TRIGGER:", "-PT", alarm_config["hours_before"], "H">>
             ELSE at(1)]

\* A faulty variant of make_ics_event: a genres line is written whenever the
\* details hold a genres list, the empty one included.
make_ics_event_genres_always(release_date, film_title, cinema_name, film_url, film_details, config) ==
    LET runtime_display == format_runtime_display(Get(film_details, "runtime", <<>>))
        title_line == IF runtime_display # <<>>
                      THEN film_title \o <<" ", "(">> \o runtime_display \o <<")">>
                      ELSE film_title
        v == Get(film_details, "vote_average", None)
        has_tmdb == v # None
        stars == stars_from_rating(v)
        genres == Get(film_details, "genres", <<>>)
        named == SelectSeq(genres, LAMBDA g : g # <<>>)
        genres_str == Join([i \in DOMAIN named |-> strip(named[i])], <<",", " ">>)
        overview == Get(film_details, "overview", <<>>)
        synopsis == Get(film_details, "synopsis", <<>>)
        desc_text == strip(IF overview # <<>> THEN overview ELSE synopsis)
        cast_raw == Get(film_details, "cast", <<>>)
        cast_line == IF "(" \in Range(cast_raw) \/ "," \in Range(cast_raw)
                     THEN cast_first_six_names(cast_raw)
                     ELSE strip(cast_raw)
        description_parts ==
            <<title_line>>
            \o (IF has_tmdb /\ stars # <<>> THEN <<stars>> ELSE <<>>)
            \o (IF "genres" \in DOMAIN film_details THEN <<genres_str>> ELSE <<>>)
            \o (IF desc_text # <<>> THEN <<<<"\n">> \o desc_text>> ELSE <<>>)
            \o (IF cast_line # <<>>
                THEN <<<<"\n", "Starring: ">> \o cast_line>> ELSE <<>>)
            \o <<<<"\n", "Film release at WTW Cinemas ", cinema_name>>>>
            \o (IF film_url # <<>> THEN <<<<"Book tickets: ">> \o film_url>> ELSE <<>>)
        description == Join(description_parts, <<"\n">>)
        notifications == config.NOTIFICATIONS
        alarms == Get(notifications, "alarms", <<>>)
    IN  [release_date |-> release_date,
         dtend |-> DateAddDays(release_date, 1),
         title |-> film_title,
         cinema_name |-> cinema_name,
         film_url |-> film_url,
         description |-> escape_and_fold_ical_text(description, <<"D", "E", "S", "C", "R", "I", "P", "T", "I", "O", "N", ":">>),
         alarms |-> IF Get(notifications, "enabled", FALSE)
                    THEN [i \in DOMAIN alarms |->
                             generate_alarm(alarms[i], release_date, config)]
                    ELSE <<>>]

\* make_ics_event: the VEVENT by its lines. DTSTART is release_date, SUMMARY
\* and LOCATION are made of title and cinema_name, URL is film_url (no line
\* when empty), description is the folded DESCRIPTION line.
make_ics_event(release_date, film_title, cinema_name, film_url, film_details, config) ==
    LET runtime_display == format_runtime_display(Get(film_details, "runtime", <<>>))
        title_line == IF runtime_display # <<>>
                      THEN film_title \o <<" ", "(">> \o runtime_display \o <<")">>
                      ELSE film_title
        v == Get(film_details, "vote_average", None)
        has_tmdb == v # None
        stars == stars_from_rating(v)
        genres == Get(film_details, "genres", <<>>)
        named == SelectSeq(genres, LAMBDA g : g # <<>>)
        genres_str == Join([i \in DOMAIN named |-> strip(named[i])], <<",", " ">>)
        overview == Get(film_details, "overview", <<>>)
        synopsis == Get(film_details, "synopsis", <<>>)
        desc_text == strip(IF overview # <<>> THEN overview ELSE synopsis)
        cast_raw == Get(film_details, "cast", <<>>)
        cast_line == IF "(" \in Range(cast_raw) \/ "," \in Range(cast_raw)
                     THEN cast_first_six_names(cast_raw)
                     ELSE strip(cast_raw)
        description_parts ==
            <<title_line>>
            \o (IF has_tmdb /\ stars # <<>> THEN <<stars>> ELSE <<>>)
            \o (IF has_tmdb /\ genres_str # <<>> THEN <<genres_str>> ELSE <<>>)
            \o (IF desc_text # <<>> THEN <<<<"\n">> \o desc_text>> ELSE <<>>)
            \o (IF cast_line # <<>>
                THEN <<<<"\n", "Starring: ">> \o cast_line>> ELSE <<>>)
            \o <<<<"\n", "Film release at WTW Cinemas ", cinema_name>>>>
            \o (IF film_url # <<>> THEN <<<<"Book tickets: ">> \o film_url>> ELSE <<>>)
        description == Join(description_parts, <<"\n">>)
        notifications == config.NOTIFICATIONS
        alarms == Get(notifications, "alarms", <<>>)
    IN  [release_date |-> release_date,
         dtend |-> DateAddDays(release_date, 1),
         title |-> film_title,
         cinema_name |-> cinema_name,
         film_url |-> film_url,
         description |-> escape_and_fold_ical_text(description, <<"D", "E", "S", "C", "R", "I", "P", "T", "I", "O", "N", ":">>),
         alarms |-> IF Get(notifications, "enabled", FALSE)
                    THEN [i \in DOMAIN alarms |->
                             generate_alarm(alarms[i], release_date, config)]
                    ELSE <<>>]

\* the name of the calendar file of a cinema
IcsName(cinema_id) == <<"wtw-", cinema_id>>

\* the calendar of one cinema: its name and one event per film, in order
calendar(cinema_name, cinema_films, config) ==
    [name |-> cinema_name,
     events |-> [i \in DOMAIN cinema_films |->
                    make_ics_event(cinema_films[i].release_date, cinema_films[i].title,
                                   cinema_films[i].cinema_name, cinema_films[i].film_url,
                                   cinema_films[i].details, config)]]

\* A faulty variant of unique_release_pairs: one item for each venue of a release.
unique_release_pairs_by_venue(films) ==
    { <<films[i].release_date, films[i].title, films[i].cinema_name>> :
        i \in DOMAIN films }

\* set((f[0], f[1]) for f in all_films)
unique_release_pairs(films) ==
    { <<films[i].release_date, films[i].title>> : i \in DOMAIN films }

\* A faulty variant of release_stats: this_month counts the whole month.
release_stats_whole_month(release_history, unique_releases, today) ==
    LET past_cutoff_30 == DateAddDays(today, 0 - 30) IN
    [past_30_days |-> Cardinality({ p \in release_history :
                          DateLeq(past_cutoff_30, p[1]) /\ DateLeq(p[1], today) }),
     ytd_past |-> Cardinality({ p \in release_history :
                          p[1][1] = today[1] /\ DateLess(p[1], today) }),
     this_month |-> Cardinality({ p \in unique_releases :
                          p[1][1] = today[1] /\ p[1][2] = today[2] }),
     this_year |-> Cardinality({ p \in unique_releases :
                          p[1][1] = today[1] /\ DateLeq(today, p[1]) }),
     total_upcoming |-> Cardinality({ p \in unique_releases : DateLeq(today, p[1]) })]

\* release_stats
release_stats(release_history, unique_releases, today) ==
    LET past_cutoff_30 == DateAddDays(today, 0 - 30) IN
    [past_30_days |-> Cardinality({ p \in release_history :
                          DateLeq(past_cutoff_30, p[1]) /\ DateLeq(p[1], today) }),
     ytd_past |-> Cardinality({ p \in release_history :
                          p[1][1] = today[1] /\ DateLess(p[1], today) }),
     this_month |-> Cardinality({ p \in unique_releases :
                          p[1][1] = today[1] /\ p[1][2] = today[2] /\ DateLeq(today, p[1]) }),
     this_year |-> Cardinality({ p \in unique_releases :
                          p[1][1] = today[1] /\ DateLeq(today, p[1]) }),
     total_upcoming |-> Cardinality({ p \in unique_releases : DateLeq(today, p[1]) })]

\* the files before the first run
Now0 == Stamp(<<2026, 3, 10>>, 0)
Aged(days, us) == [Now0 EXCEPT !.date = DateAddDays(Now0.date, 0 - days), !.us = us]

DiskEmpty ==
    [cache |-> MissingFile, tmdb |-> MissingFile, history |-> MissingFile,
     ics |-> <<>>, index |-> None]

\* a detail cache with an entry past the expiry, one exactly on it, a fresh
\* one and one without cached_at; a TMDb cache with a fresh negative entry
\* and an expired one; a history with a pair dated 730 days before the
\* first run and one dated 731 days before it; a calendar file of an older
\* naming
DiskSeeded ==
    [cache |-> JsonFile(JObj(
         (<<"/film/", "ab", "/">> :> cache_entry(extract_details(PageFull), Aged(8, 250000)))
         @@ (<<"/film/", "a-b", "/">> :> cache_entry(extract_details(PageFull), Aged(7, 0)))
         @@ (<<"/film/", "c", "/">> :> cache_entry(extract_details(PageFull), Aged(6, 0)))
         @@ (<<"/film/", "x", "/">> :> JObj(NoDetails)))),
     tmdb |-> JsonFile(JObj(
         (<<"a", "b">> :> negative_entry(Aged(29, 250000)))
         @@ (<<"a", "-", "b">> :> negative_entry(Aged(31, 0))))),
     history |-> JsonFile(JList(
         << JList(<<JStr(date_isoformat(<<2026, 3, 1>>)), JStr(<<"a">>)>>),
            JList(<<JStr(date_isoformat(<<2025, 2, 29>>)), JStr(<<"a">>)>>),
            JList(<<JStr(date_isoformat(<<2023, 1, 1>>)), JStr(<<"b">>)>>),
            JList(<<JStr(date_isoformat(<<2024, 3, 10>>)), JStr(<<"c">>)>>),
            JList(<<JStr(date_isoformat(<<2024, 3, 9>>)), JStr(<<"d">>)>>) >>)),
     ics |-> (<<"films">> :> calendar("St Austell", <<>>, DefaultConfig)),
     index |-> None]

\* stores of the wrong shape
DiskBroken ==
    [cache |-> JsonFile(JList(<<>>)), tmdb |-> JsonFile(JList(<<>>)),
     history |-> JsonFile(JNull), ics |-> <<>>, index |-> None]

InitDisks == {DiskEmpty, DiskSeeded, DiskBroken}
ApiKeys == { <<" ">>, <<"k">> }
RunGaps == {0, 8}

Validate ==
    /\ pc = "start"
    /\ pc' = IF validate_configuration(conf).status = "raised"
             THEN "returned" ELSE "load_cache"
    /\ UNCHANGED <<conf, world, api_key, disk, clock, run, film_cache, loaded,
                   all_films, vi, tmdb_cache, todo, log, scraped, faults>>

LoadCache ==
    /\ pc = "load_cache"
    /\ film_cache' = load_cache(disk.cache, clock).value
    /\ loaded' = film_cache'
    /\ log' = Append(log, Effect("load_cache", <<>>, TRUE, 0))
    /\ pc' = IF enabled_cinemas(conf) = <<>> THEN "returned" ELSE "scrape"
    /\ vi' = 1
    /\ UNCHANGED <<conf, world, api_key, disk, clock, run, all_films, tmdb_cache,
                   todo, scraped, faults>>

\* one turn of the loop over enabled_cinemas
ScrapeVenue ==
    /\ pc = "scrape"
    /\ vi <= Len(enabled_cinemas(conf))
    /\ LET cinema == enabled_cinemas(conf)[vi]
           entries == Listing(world, cinema.id)
       IN  \E listing_answer \in ListingAnswers, bad \in SUBSET (DOMAIN entries) :
             \E r \in { extract_films(cinema.url, cinema.name, film_cache, entries,
                                      listing_answer,
                                      [i \in DOMAIN entries |->
                                          IF i \in bad THEN AFail ELSE AOk],
                                      clock) } :
             LET cost == Cardinality({ i \in DOMAIN r.fetches :
                                         ~r.fetches[i].ok \/ r.fetches[i].gets > 1 })
                 h == on_scrape_error(all_films)
                 found == [i \in DOMAIN r.films |->
                              r.films[i] @@ [cinema_id |-> cinema.id]]
             IN  /\ faults + (IF listing_answer = AOk THEN 0 ELSE 1) + Cardinality(bad)
                        <= MaxFaults
                 /\ faults' = faults + cost
                 /\ all_films' = IF r.raised THEN h.all_films ELSE all_films \o found
                 /\ pc' = IF r.raised /\ h.abort THEN "returned" ELSE "scrape"
                 /\ film_cache' = r.cache
                 /\ log' = log \o [i \in DOMAIN r.fetches |->
                                     Effect(r.fetches[i].kind, r.fetches[i].url,
                                            r.fetches[i].ok, r.fetches[i].gets)]
                 /\ scraped' = [scraped EXCEPT ![run] = all_films']
    /\ vi' = vi + 1
    /\ UNCHANGED <<conf, world, api_key, disk, clock, run, loaded, tmdb_cache, todo>>

\* save_cache(cache) after the loop, and the test of TMDB_API_KEY
SaveCache ==
    /\ pc = "scrape"
    /\ vi > Len(enabled_cinemas(conf))
    /\ \E wrote \in BOOLEAN :
          /\ wrote \/ faults < MaxFaults
          /\ faults' = IF wrote THEN faults ELSE faults + 1
          /\ disk' = IF wrote THEN [disk EXCEPT !.cache = save_cache(film_cache)] ELSE disk
          /\ log' = Append(log, Effect("save_cache", <<>>, wrote, 0))
    /\ pc' = IF strip(api_key) # <<>> THEN "load_tmdb" ELSE "write"
    /\ UNCHANGED <<conf, world, api_key, clock, run, film_cache, loaded, all_films,
                   vi, tmdb_cache, todo, scraped>>

LoadTmdbCache ==
    /\ pc = "load_tmdb"
    /\ LET r == load_tmdb_cache(disk.tmdb, clock) IN
          IF r.status = "raised"
          THEN /\ pc' = "crashed"
               /\ UNCHANGED <<tmdb_cache, todo>>
          ELSE /\ pc' = "enrich"
               /\ tmdb_cache' = r.value
               /\ todo' = unique_by_key(all_films)
    /\ log' = Append(log, Effect("load_tmdb_cache", <<>>, TRUE, 0))
    /\ UNCHANGED <<conf, world, api_key, disk, clock, run, film_cache, loaded,
                   all_films, vi, scraped, faults>>

\* one turn of the loop over unique_by_key
EnrichFilm ==
    /\ pc = "enrich"
    /\ todo # <<>>
    /\ LET u == Head(todo)
           catalog == TmdbCatalog(strip(strip_qualifier(u.title)))
       IN  \E search \in {SearchOk(catalog), SearchOk(<<>>), SearchError},
              detail \in {DetailOk(TmdbMovie), DetailError} :
             LET r == enrich_film_tmdb(u.title, tmdb_cache, search, detail, clock)
                 cost == (IF "tmdb_search" \in Range(r.did) /\ search # SearchOk(catalog)
                          THEN 1 ELSE 0)
                           + (IF "tmdb_detail" \in Range(r.did) /\ detail # DetailOk(TmdbMovie)
                              THEN 1 ELSE 0)
             IN  /\ faults + (IF search = SearchOk(catalog) THEN 0 ELSE 1)
                        + (IF detail = DetailOk(TmdbMovie) THEN 0 ELSE 1) <= MaxFaults
                 /\ faults' = faults + cost
                 /\ tmdb_cache' = r.cache
                 /\ all_films' =
                        IF DOMAIN r.extra = {} THEN all_films
                        ELSE [i \in DOMAIN all_films |->
                                 IF i \in u.indices
                                 THEN [all_films[i] EXCEPT
                                          !.details = apply_extra(@, r.extra)]
                                 ELSE all_films[i]]
                 /\ log' = log \o <<Effect("enrich_film_tmdb", u.key, TRUE, 0)>>
                            \o [i \in DOMAIN r.did |-> Effect(r.did[i], u.key, TRUE, 1)]
    /\ todo' = Tail(todo)
    /\ UNCHANGED <<conf, world, api_key, disk, clock, run, pc, film_cache, loaded,
                   vi, scraped>>

SaveTmdbCache ==
    /\ pc = "enrich"
    /\ todo = <<>>
    /\ \E wrote \in BOOLEAN :
          /\ wrote \/ faults < MaxFaults
          /\ faults' = IF wrote THEN faults ELSE faults + 1
          /\ disk' = IF wrote THEN [disk EXCEPT !.tmdb = save_cache(tmdb_cache)] ELSE disk
          /\ log' = Append(log, Effect("save_tmdb_cache", <<>>, wrote, 0))
    /\ pc' = "write"
    /\ UNCHANGED <<conf, world, api_key, clock, run, film_cache, loaded, all_films,
                   vi, tmdb_cache, todo, scraped>>

\* the test for no film at all, the sort, and the calendar files
WriteCalendars ==
    /\ pc = "write"
    /\ IF all_films = <<>>
       THEN /\ pc' = "returned"
            /\ UNCHANGED <<all_films, disk, log>>
       ELSE LET sorted == sort_films(all_films)
                written == { enabled_cinemas(conf)[i].id :
                                 i \in DOMAIN enabled_cinemas(conf) }
                kept == { n \in DOMAIN disk.ics : n[1] = "wtw-" /\ n[2] \notin written }
                name_of == [id \in written |->
                               (CHOOSE c \in Range(CINEMAS) : c.id = id).name]
                ics == [n \in kept \cup { IcsName(id) : id \in written } |->
                           IF n \in kept THEN disk.ics[n]
                           ELSE calendar(name_of[n[2]],
                                         SelectSeq(sorted,
                                                   LAMBDA f : f.cinema_id = n[2]),
                                         conf)]
            IN  /\ all_films' = sorted
                /\ disk' = [disk EXCEPT !.ics = ics]
                /\ log' = Append(log, Effect("write_ics", <<>>, TRUE, 0))
                /\ pc' = "stats"
    /\ UNCHANGED <<conf, world, api_key, clock, run, film_cache, loaded, vi,
                   tmdb_cache, todo, scraped, faults>>

\* A faulty variant of history_steps: the statistics are computed before the
\* history is saved.
history_steps_stats_first(wrote) ==
    << Effect("load_release_history", <<>>, TRUE, 0),
       Effect("release_stats", <<>>, TRUE, 0),
       Effect("save_release_history", <<>>, wrote, 0),
       Effect("write_index", <<>>, TRUE, 0) >>

\* what main does from load_release_history() on, in the order of its
\* statements; wrote is whether save_release_history could write its file
history_steps(wrote) ==
    << Effect("load_release_history", <<>>, TRUE, 0),
       Effect("save_release_history", <<>>, wrote, 0),
       Effect("release_stats", <<>>, TRUE, 0),
       Effect("write_index", <<>>, TRUE, 0) >>

\* the release history, the statistics and the index page
UpdateHistory ==
    /\ pc = "stats"
    /\ LET today == clock.date
           unique_releases == unique_release_pairs(all_films)
           h == load_release_history(disk.history)
       IN  IF h.status = "raised"
           THEN /\ pc' = "crashed"
                /\ log' = Append(log, Effect("load_release_history", <<>>, FALSE, 0))
                /\ UNCHANGED <<disk, faults>>
           ELSE LET release_history == h.value \cup unique_releases IN
                \E wrote \in BOOLEAN :
                   /\ wrote \/ faults < MaxFaults
                   /\ faults' = IF wrote THEN faults ELSE faults + 1
                   /\ pc' = "returned"
                   /\ disk' = [disk EXCEPT
                         !.history = IF wrote
                                     THEN save_release_history(release_history, today)
                                     ELSE @,
                         !.index = Some(release_stats(release_history, unique_releases,
                                                      today))]
                   /\ log' = log \o history_steps(wrote)
    /\ UNCHANGED <<conf, world, api_key, clock, run, film_cache, loaded, all_films,
                   vi, tmdb_cache, todo, scraped>>

\* the program is started again, at once or some days later
NextRun ==
    /\ pc \in {"returned", "crashed"}
    /\ run < MaxRuns
    /\ run' = run + 1
    /\ \E gap \in RunGaps : clock' = [clock EXCEPT !.date = DateAddDays(@, gap)]
    /\ pc' = "start"
    /\ film_cache' = <<>>
    /\ loaded' = <<>>
    /\ all_films' = <<>>
    /\ vi' = 1
    /\ tmdb_cache' = <<>>
    /\ todo' = <<>>
    /\ UNCHANGED <<conf, world, api_key, disk, log, scraped, faults>>

MainIdle ==
    /\ conf = DefaultConfig
    /\ world = "shared"
    /\ api_key = <<>>
    /\ disk = DiskEmpty
    /\ clock = Now0
    /\ run = 1
    /\ pc = "idle"
    /\ film_cache = <<>>
    /\ loaded = <<>>
    /\ all_films = <<>>
    /\ vi = 1
    /\ tmdb_cache = <<>>
    /\ todo = <<>>
    /\ log = <<>>
    /\ scraped = [r \in 1..MaxRuns |-> <<>>]
    /\ faults = 0

\* ------------------------------------------------------------------------
\* SpecCalls: one call of _pick_best_tmdb_result on any short candidate
\* list, of the parsing half of fetch_film_details on any small page, or of
\* the statistics of main on any history and any records
\* ------------------------------------------------------------------------
MaxCandidates == 3
MaxBlocks == 2

\* the sequences over S of length at most n
SeqsUpTo(S, n) == UNION { [1..k -> S] : k \in 0..n }

\* TMDb search results: a title equal to the query "Ab" up to case, one that
\* holds it, one held by it, two unrelated ones of 2024 and 1999, one
\* without title, one equal to the query "A - b" once normalized
PickCandidates ==
    { [id |-> 1, title |-> <<"a", "b">>, release_date |-> <<"1", "9", "9", "9">>],
      [id |-> 2, title |-> <<"A", "b", " ", "2">>, release_date |-> <<>>],
      [id |-> 3, title |-> <<"b">>, release_date |-> <<"2", "0", "2", "4">>],
      [id |-> 4, title |-> <<"z">>,
       release_date |-> <<"2", "0", "2", "4", "-", "0", "1", "-", "0", "1">>],
      [id |-> 5, title |-> <<"y">>, release_date |-> <<"1", "9", "9", "9">>],
      [id |-> 6, title |-> <<>>, release_date |-> <<"2", "0", "2", "0">>],
      [id |-> 7, title |-> <<"A", ":", " ", "B">>, release_date |-> <<"2", "0", "2">>] }

\* queries: plain, with separators, and one that is only a separator
PickQueries == { <<"A", "b">>, <<"A", " ", "-", " ", "b">>, <<"-">> }

TextTerms ==
    [body |-> <<"t">>, len |-> 90, has |-> {"terms"},
     runtime |-> None, after_colon |-> <<"t">>]
TextWheelchair ==
    [body |-> <<"w">>, len |-> 100, has |-> {"wheelchair"},
     runtime |-> None, after_colon |-> <<"w">>]
TextAudio ==
    [body |-> <<"u">>, len |-> 110, has |-> {"audio description"},
     runtime |-> None, after_colon |-> <<"u">>]
TextMin ==
    [body |-> <<"m">>, len |-> MIN_SYNOPSIS_LENGTH, has |-> {},
     runtime |-> None, after_colon |-> <<"m">>]
TextMax ==
    [body |-> <<"x">>, len |-> MAX_SYNOPSIS_LENGTH, has |-> {},
     runtime |-> None, after_colon |-> <<"x">>]

PageParagraphs ==
    { <<>>, <<TextCookie>>, <<TextMin>>, <<TextWheelchair>>, <<TextMin, TextSynopsis>> }
PageBlocks ==
    SeqsUpTo({TextCookie, TextTerms, TextWheelchair, TextAudio, TextMin, TextMax,
              TextBlock, TextSynopsis}, MaxBlocks)

\* (release_date, title) pairs around the days of StatDays
StatPairs ==
    { <<<<2025, 12, 31>>, <<"a">>>>, <<<<2026, 3, 1>>, <<"a">>>>,
      <<<<2026, 3, 10>>, <<"a">>>>, <<<<2026, 3, 10>>, <<"b">>>>,
      <<<<2026, 3, 31>>, <<"a">>>>, <<<<2026, 4, 1>>, <<"a">>>>,
      <<<<2027, 3, 10>>, <<"a">>>> }
StatDays == { <<2026, 3, 10>>, <<2026, 12, 31>> }

CallIdle == [op |-> "idle", input |-> <<>>, out |-> <<>>]

PickCall ==
    /\ fc.op = "idle"
    /\ \E n \in 1..MaxCandidates :
       \E results \in [1..n -> PickCandidates], search_title \in PickQueries :
          fc' = [op |-> "pick",
                 input |-> [results |-> results, search_title |-> search_title],
                 out |-> pick_best_tmdb_result(results, search_title)]

DetailsCall ==
    /\ fc.op = "idle"
    /\ \E ps \in PageParagraphs, divs \in PageBlocks :
          LET page == [strings |-> ps \o divs, ps |-> ps, divs |-> divs] IN
          fc' = [op |-> "details", input |-> page, out |-> extract_details(page)]

StatsCall ==
    /\ fc.op = "idle"
    /\ \E history \in SUBSET StatPairs, unique_releases \in SUBSET StatPairs,
          today \in StatDays :
          LET release_history == history \cup unique_releases IN
          fc' = [op |-> "stats",
                 input |-> [release_history |-> release_history,
                            unique_releases |-> unique_releases, today |-> today],
                 out |-> release_stats(release_history, unique_releases, today)]

\* ------------------------------------------------------------------------
\* SpecEnrich: one call of enrich_film_tmdb on any title and cache, against
\* any answers of TMDb, and a second call for the same title on the cache
\* as the first left it
\* ------------------------------------------------------------------------
EnrichTitles ==
    { <<"A", "b">>, <<"A", "b", " ", "(", "c", ")">>, <<"A", " ", "-", " ", "b">>,
      <<"!">>, <<"(", "c", ")">>, <<" ", "(", "c", ")">> }

EnrichEntries ==
    << negative_entry(Aged(1, 0)),
       JObj([overview |-> <<"o">>, genres |-> << <<"Drama">> >>, vote_average |-> <<7>>,
             director |-> <<"D">>, cast |-> <<"X">>,
             cached_at |-> JStr(isoformat(Aged(1, 0)))]),
       JObj([cached_at |-> JStr(isoformat(Aged(1, 0)))]) >>

EnrichCaches ==
    {<<>>} \cup { (tmdb_cache_key(t) :> EnrichEntries[i]) :
                    t \in EnrichTitles, i \in DOMAIN EnrichEntries }

\* the search answers: the catalogue, no result, an error, a result without
\* id, one with id 0, an empty object, and two results that match only by
\* year
SearchAnswers(search_title) ==
    << SearchOk(TmdbCatalog(search_title)),
       SearchOk(<<>>),
       SearchError,
       SearchOk(<< [title |-> search_title] >>),
       SearchOk(<< [id |-> 0, title |-> search_title] >>),
       SearchOk(<< <<>> >>),
       SearchOk(<< [id |-> 3, title |-> <<"z">>,
                    release_date |-> <<"1", "9", "9", "9">>],
                   [id |-> 4, title |-> <<"y">>,
                    release_date |-> <<"2", "0", "2", "4">>, genre_ids |-> <<37>>] >>) >>

DetailAnswers ==
    << DetailOk(TmdbMovie),
       DetailError,
       DetailOk([genres |-> << [id |-> 18, name |-> <<" ", "Drama">>], [id |-> 1] >>,
                 overview |-> <<>>,
                 credits |-> [cast |-> <<[name |-> <<" ">>], [name |-> <<"X">>]>>]]) >>

NoResult == EnrichResult(<<>>, <<>>, <<>>)

EnrichIdle ==
    [phase |-> "idle", title |-> <<>>, before |-> <<>>, search |-> SearchError,
     detail |-> DetailError, first |-> NoResult, second |-> NoResult]

EnrichCall ==
    /\ en.phase = "idle"
    /\ \E title \in EnrichTitles, before \in EnrichCaches :
       \E i \in DOMAIN SearchAnswers(<<>>), j \in DOMAIN DetailAnswers :
          LET search == SearchAnswers(strip(strip_qualifier(title)))[i]
              detail == DetailAnswers[j]
          IN  en' = [phase |-> "called", title |-> title, before |-> before,
                     search |-> search, detail |-> detail,
                     first |-> enrich_film_tmdb(title, before, search, detail, Now0),
                     second |-> NoResult]

EnrichAgain ==
    /\ en.phase = "called"
    /\ \E i \in DOMAIN SearchAnswers(<<>>), j \in DOMAIN DetailAnswers :
          LET search == SearchAnswers(strip(strip_qualifier(en.title)))[i]
              detail == DetailAnswers[j]
          IN  en' = [en EXCEPT
                       !.phase = "again",
                       !.second = enrich_film_tmdb(en.title, en.first.cache, search,
                                                   detail, Now0)]

InitEnrich ==
    /\ en = EnrichIdle
    /\ fetch = FetchIdle
    /\ ld = LoadIdle
    /\ pd = ParseIdle
    /\ fo = FoldIdle
    /\ fc = CallIdle
    /\ MainIdle

NextEnrich ==
    \/ EnrichCall /\ UNCHANGED <<fetch, ld, pd, fo, fc, mainVars>>
    \/ EnrichAgain /\ UNCHANGED <<fetch, ld, pd, fo, fc, mainVars>>

SpecEnrich == InitEnrich /\ [][NextEnrich]_vars

Init ==
    /\ fetch = FetchIdle
    /\ ld = LoadIdle
    /\ en = EnrichIdle
    /\ pd = ParseIdle
    /\ fo = FoldIdle
    /\ fc = CallIdle
    /\ \/ /\ conf = DefaultConfig
          /\ world \in Worlds
          /\ api_key \in ApiKeys
          /\ disk \in InitDisks
       \/ /\ conf \in Configs \ {DefaultConfig}
          /\ world = "messy"
          /\ api_key = <<"k">>
          /\ disk = DiskSeeded
    /\ clock = Now0
    /\ run = 1
    /\ pc = "start"
    /\ film_cache = <<>>
    /\ loaded = <<>>
    /\ all_films = <<>>
    /\ vi = 1
    /\ tmdb_cache = <<>>
    /\ todo = <<>>
    /\ log = <<>>
    /\ scraped = [r \in 1..MaxRuns |-> <<>>]
    /\ faults = 0

Next ==
    \/ Validate /\ UNCHANGED <<fetch, ld, en, pd, fo, fc>>
    \/ LoadCache /\ UNCHANGED <<fetch, ld, en, pd, fo, fc>>
    \/ ScrapeVenue /\ UNCHANGED <<fetch, ld, en, pd, fo, fc>>
    \/ SaveCache /\ UNCHANGED <<fetch, ld, en, pd, fo, fc>>
    \/ LoadTmdbCache /\ UNCHANGED <<fetch, ld, en, pd, fo, fc>>
    \/ EnrichFilm /\ UNCHANGED <<fetch, ld, en, pd, fo, fc>>
    \/ SaveTmdbCache /\ UNCHANGED <<fetch, ld, en, pd, fo, fc>>
    \/ WriteCalendars /\ UNCHANGED <<fetch, ld, en, pd, fo, fc>>
    \/ UpdateHistory /\ UNCHANGED <<fetch, ld, en, pd, fo, fc>>
    \/ NextRun /\ UNCHANGED <<fetch, ld, en, pd, fo, fc>>

Spec == Init /\ [][Next]_vars

InitFetch ==
    /\ fetch = FetchIdle
    /\ ld = LoadIdle
    /\ en = EnrichIdle
    /\ pd = ParseIdle
    /\ fo = FoldIdle
    /\ fc = CallIdle
    /\ MainIdle

NextFetch ==
    \/ FetchCall /\ UNCHANGED <<ld, en, pd, fo, fc, mainVars>>
    \/ FetchAttempt /\ UNCHANGED <<ld, en, pd, fo, fc, mainVars>>

SpecFetch == InitFetch /\ [][NextFetch]_vars

InitLoad ==
    /\ ld = LoadIdle
    /\ fetch = FetchIdle
    /\ en = EnrichIdle
    /\ pd = ParseIdle
    /\ fo = FoldIdle
    /\ fc = CallIdle
    /\ MainIdle

NextLoad ==
    \/ LoadCacheCall /\ UNCHANGED <<fetch, en, pd, fo, fc, mainVars>>
    \/ LoadTmdbCacheCall /\ UNCHANGED <<fetch, en, pd, fo, fc, mainVars>>
    \/ LoadReleaseHistoryCall /\ UNCHANGED <<fetch, en, pd, fo, fc, mainVars>>

SpecLoad == InitLoad /\ [][NextLoad]_vars

InitFold ==
    /\ fo = FoldIdle
    /\ fc = CallIdle
    /\ pd = ParseIdle
    /\ fetch = FetchIdle
    /\ ld = LoadIdle
    /\ en = EnrichIdle
    /\ MainIdle

NextFold == FoldCall /\ UNCHANGED <<fetch, ld, en, pd, fc, mainVars>>

SpecFold == InitFold /\ [][NextFold]_vars

InitDate ==
    /\ pd = ParseIdle
    /\ fo = FoldIdle
    /\ fc = CallIdle
    /\ fetch = FetchIdle
    /\ ld = LoadIdle
    /\ en = EnrichIdle
    /\ MainIdle

NextDate ==
    \/ ParseFullLabel /\ UNCHANGED <<fetch, ld, en, fo, fc, mainVars>>
    \/ ParseAltLabel /\ UNCHANGED <<fetch, ld, en, fo, fc, mainVars>>
    \/ ParseOtherText /\ UNCHANGED <<fetch, ld, en, fo, fc, mainVars>>

SpecDate == InitDate /\ [][NextDate]_vars

InitCalls ==
    /\ fc = CallIdle
    /\ fo = FoldIdle
    /\ pd = ParseIdle
    /\ fetch = FetchIdle
    /\ ld = LoadIdle
    /\ en = EnrichIdle
    /\ MainIdle

NextCalls ==
    \/ PickCall /\ UNCHANGED <<fetch, ld, en, pd, fo, mainVars>>
    \/ DetailsCall /\ UNCHANGED <<fetch, ld, en, pd, fo, mainVars>>
    \/ StatsCall /\ UNCHANGED <<fetch, ld, en, pd, fo, mainVars>>

SpecCalls == InitCalls /\ [][NextCalls]_vars

\* ------------------------------------------------------------------------
\* C1: for N >= 1, fetch_with_retries makes at most N GETs; it returns on
\* the first 2xx answer and attempts nothing after it; it raises only after
\* exactly N attempts that all failed, whichever kind of failure each was;
\* and for N >= 1 it ends in no other way.
\* ------------------------------------------------------------------------
AllFailed(outs) == \A i \in DOMAIN outs : outs[i] # "ok"

C1_FetchAttempts ==
    fetch.retries >= 1 =>
        /\ Len(fetch.outcomes) <= fetch.retries
        /\ fetch.status \in {"running", "returned", "raised"}
        /\ fetch.status = "running" =>
              /\ AllFailed(fetch.outcomes)
              /\ Len(fetch.outcomes) < fetch.retries
        /\ fetch.status = "returned" =>
              /\ fetch.outcomes # <<>>
              /\ fetch.outcomes[Len(fetch.outcomes)] = "ok"
              /\ AllFailed(SubSeq(fetch.outcomes, 1, Len(fetch.outcomes) - 1))
        /\ fetch.status = "raised" =>
              /\ Len(fetch.outcomes) = fetch.retries
              /\ AllFailed(fetch.outcomes)

\* a call with N = 3 raised after a mix of both kinds of failure
C1_Witness ==
    /\ fetch.status = "raised"
    /\ fetch.retries = 3
    /\ {"http_error", "transport_error"} \subseteq Range(fetch.outcomes)

\* ------------------------------------------------------------------------
\* What a run did, read from the log
\* ------------------------------------------------------------------------
ValidConfig == validate_configuration(conf).status = "returned"

\* main is past the loop over the venues
LoopDone ==
    /\ ValidConfig
    /\ \/ pc \in {"load_tmdb", "enrich", "write", "stats", "returned", "crashed"}
       \/ pc = "scrape" /\ vi > Len(enabled_cinemas(conf))

\* the listing fetch of cinema c ended well / badly in run r
ListingOk(c, r) ==
    \E i \in DOMAIN log : /\ log[i].run = r /\ log[i].op = "listing"
                          /\ log[i].url = c.url /\ log[i].ok
ListingFailed(c, r) ==
    \E i \in DOMAIN log : /\ log[i].run = r /\ log[i].op = "listing"
                          /\ log[i].url = c.url /\ ~log[i].ok

\* the identity (date, title, venue, url) of the record a listing entry
\* gives, for the entries that give one, in document order
EntryKeys(entries, cinema_name, today) ==
    LET Gives(e) == /\ e.h2 # None /\ e.p # None
                    /\ strip_qualifier(e.h2[1]) # <<>>
                    /\ parse_date(e.p[1], today) # None
        good == SelectSeq(entries, Gives)
    IN  [i \in DOMAIN good |->
            <<parse_date(good[i].p[1], today)[1], strip_qualifier(good[i].h2[1]),
              cinema_name, IF good[i].a = None THEN <<>> ELSE good[i].a[1]>>]

\* the records of cinema c among films, in order, by identity
KeysOf(films, c) ==
    LET mine == SelectSeq(films, LAMBDA f : f.cinema_name = c.name)
    IN  [i \in DOMAIN mine |-> film_key(mine[i])]

\* ------------------------------------------------------------------------
\* C2: when the listing fetch of a venue fails after all retries, the run
\* goes on: once the loop is over, a listing fetch was made for every
\* enabled venue, every venue whose listing was fetched has all its records
\* in all_films (and, once written, in its calendar), and save_cache was
\* called.
\* ------------------------------------------------------------------------
C2_FailedVenueDoesNotAbort ==
    LoopDone =>
        /\ \A i \in DOMAIN enabled_cinemas(conf) :
              LET c == enabled_cinemas(conf)[i] IN
              /\ ListingOk(c, run) \/ ListingFailed(c, run)
              /\ ListingOk(c, run) =>
                    /\ Range(KeysOf(all_films, c))
                          = Range(EntryKeys(Listing(world, c.id), c.name, clock.date))
                    /\ pc = "returned" /\ all_films # <<>> =>
                          Range(KeysOf(disk.ics[IcsName(c.id)].events, c))
                              = Range(EntryKeys(Listing(world, c.id), c.name, clock.date))
              /\ ListingFailed(c, run) => KeysOf(all_films, c) = <<>>
        /\ pc # "scrape" =>
              \E i \in DOMAIN log : log[i].run = run /\ log[i].op = "save_cache"

\* the second venue failed, the first and the later ones gave their films,
\* and the run wrote its calendars
C2_Witness ==
    /\ conf = DefaultConfig
    /\ world = "shared"
    /\ pc = "returned"
    /\ ListingFailed(CINEMAS[2], run)
    /\ \A i \in {1, 3, 4} : ListingOk(CINEMAS[i], run) /\ KeysOf(all_films, CINEMAS[i]) # <<>>
    /\ disk.ics[IcsName("truro")].events # <<>>

\* ------------------------------------------------------------------------
\* C3: when validate_configuration rejects the configuration, main returns
\* having done nothing: no GET, no load or save of a cache or of the
\* history, no calendar or index written, and the files are as they were.
\* ------------------------------------------------------------------------
C3_RejectedConfigDoesNothing ==
    conf \in BadConfigs =>
        /\ validate_configuration(conf) = Raised("ValueError")
        /\ log = <<>>
        /\ disk \in InitDisks
        /\ pc \in {"start", "returned"}
        /\ all_films = <<>>

\* the second alarm has a malformed time; main has returned, twice
C3_Witness ==
    /\ conf.NOTIFICATIONS.enabled
    /\ first_bad_alarm(conf.NOTIFICATIONS.alarms) = 2
    /\ pc = "returned"
    /\ run = 2

\* ------------------------------------------------------------------------
\* C4: at every moment of a run every entry of the detail cache has a
\* cached_at later than the clock minus 7 days, and every entry of the TMDb
\* cache one later than the clock minus 30 days: what load_cache and
\* load_tmdb_cache return holds no older entry and no entry without
\* cached_at, and what the run adds is stamped with the clock.
\* ------------------------------------------------------------------------
\* the time a text of isoformat() stands for
fromisoformat(s) ==
    [date |-> strptime_date(SubSeq(s, 1, 10))[1],
     h |-> DigitsValue2(s, 12), mi |-> DigitsValue2(s, 15), s |-> DigitsValue2(s, 18),
     us |-> IF Len(s) = 26
            THEN DigitsValue2(s, 21) * 10000 + DigitsValue2(s, 23) * 100
                   + DigitsValue2(s, 25)
            ELSE 0]

FreshAt(entry, days) ==
    /\ "cached_at" \in DOMAIN entry.v
    /\ StampLess(StampMinusDays(clock, days), fromisoformat(entry.v["cached_at"].v))

C4_OnlyFreshEntriesVisible ==
    /\ \A k \in DOMAIN film_cache : FreshAt(film_cache[k], CACHE_EXPIRY_DAYS)
    /\ \A k \in DOMAIN tmdb_cache : FreshAt(tmdb_cache[k], TMDB_CACHE_DAYS)

\* both caches were loaded from files that hold expired entries, one
\* exactly on the cut-off and one without cached_at; only the fresh
\* entries came through
C4_Witness ==
    /\ pc = "enrich"
    /\ run = 1
    /\ disk.tmdb = DiskSeeded.tmdb
    /\ DOMAIN loaded = { <<"/film/", "c", "/">> }
    /\ DOMAIN tmdb_cache = { <<"a", "b">> }

\* ------------------------------------------------------------------------
\* C5: whatever is on disk (missing, unreadable, not JSON, JSON of the
\* wrong shape), each of the three load operations returns an empty
\* collection and raises nothing.
\* ------------------------------------------------------------------------
WellShapedCache(file) ==
    /\ file.kind = "json"
    /\ file.json.t = "obj"
    /\ \A k \in DOMAIN file.json.v : file.json.v[k].t = "obj"

WellShapedHistory(file) ==
    /\ file.kind = "json"
    /\ file.json.t = "list"

C5_BrokenStoreLoadsEmpty ==
    /\ ld.op \in {"load_cache", "load_tmdb_cache"} /\ ~WellShapedCache(ld.file)
          => ld.result = Returned(<<>>)
    /\ ld.op = "load_release_history" /\ ~WellShapedHistory(ld.file)
          => ld.result = Returned({})

\* ------------------------------------------------------------------------
\* Detail fetches of a run, by canonical URL
\* ------------------------------------------------------------------------
DetailFetches(r, base_url) ==
    { i \in DOMAIN log : /\ log[i].run = r /\ log[i].op = "detail"
                         /\ get_base_film_url(log[i].url) = base_url }

BaseUrls == { get_base_film_url(log[i].url) : i \in { j \in DOMAIN log : log[j].op = "detail" } }

\* the record's canonical detail URL was in the cache when the run loaded it
Warm(f) == f.film_url # <<>> /\ get_base_film_url(f.film_url) \in DOMAIN loaded

\* the records of the run before with the identity of f
Before(f) ==
    { g \in Range(scraped[run - 1]) : film_key(g) = film_key(f) }

FailedBefore(f) ==
    \E i \in DetailFetches(run - 1, get_base_film_url(f.film_url)) : ~log[i].ok

\* ------------------------------------------------------------------------
\* C6 (original): in a run after the first, against the same pages, every
\* record whose canonical detail URL is in the cache as loaded has the
\* detail fields it had in the run before, and no detail page is fetched
\* for it.
\* ------------------------------------------------------------------------
C6_Original ==
    run >= 2 =>
        \A f \in Range(scraped[run]) :
            Warm(f) =>
                /\ DetailFetches(run, get_base_film_url(f.film_url)) = {}
                /\ \A g \in Before(f) : g.details = f.details

\* ------------------------------------------------------------------------
\* C6 (amended): in a run after the first, a record whose canonical detail
\* URL is in the cache as loaded takes its detail fields from that cache
\* entry and no detail page is fetched for that URL; the fields are those
\* the record had in the run before unless a detail fetch for that URL
\* failed in the run before.
\* ------------------------------------------------------------------------
C6_WarmRerunSameDetails ==
    run >= 2 =>
        \A f \in Range(scraped[run]) :
            Warm(f) =>
                /\ DetailFetches(run, get_base_film_url(f.film_url)) = {}
                /\ f.details
                      = WithoutKey(loaded[get_base_film_url(f.film_url)].v, "cached_at")
                /\ ~FailedBefore(f) => \A g \in Before(f) : g.details = f.details

\* a second run at once after a first that fetched a detail page: the
\* record has the fields of the first run, which are not empty
C6_Witness ==
    /\ run = 2
    /\ clock = Now0
    /\ \E f \in Range(scraped[2]) :
          /\ Warm(f)
          /\ f.details.synopsis # <<>>
          /\ \E g \in Before(f) : g.details = f.details
          /\ \E i \in DetailFetches(1, get_base_film_url(f.film_url)) : log[i].ok

\* ------------------------------------------------------------------------
\* C7 (original): within one run there is at most one detail fetch for
\* each canonical detail URL.
\* ------------------------------------------------------------------------
C7_Original ==
    \A r \in 1..run : \A u \in BaseUrls : Cardinality(DetailFetches(r, u)) <= 1

\* ------------------------------------------------------------------------
\* C7 (amended): within one run, for each canonical detail URL, at most one
\* detail fetch succeeds and none is made after it, however many venues and
\* entries link to the URL and whatever their query; a fetch that failed
\* is repeated by the next entry that links to the URL.
\* ------------------------------------------------------------------------
C7_OneSuccessfulFetchPerUrl ==
    \A r \in 1..run : \A u \in BaseUrls :
        \A i \in DetailFetches(r, u) :
            log[i].ok => \A j \in DetailFetches(r, u) : j <= i

\* four venues list the same film under four queries; one page was fetched
C7_Witness ==
    /\ world = "shared"
    /\ conf = DefaultConfig
    /\ pc = "returned"
    /\ run = 1
    /\ \A i \in 1..4 : KeysOf(all_films, CINEMAS[i]) # <<>>
    /\ Cardinality({ all_films[i].film_url : i \in DOMAIN all_films }) = 4
    /\ Cardinality(DetailFetches(1, <<"/film/", "ab", "/">>)) = 1

\* ------------------------------------------------------------------------
\* C8: the records extract_films returns for a venue are, by identity
\* (release_date, title, venue name, detail URL), the entries of the
\* listing that give a record, each identity once, at the place of its
\* first entry and in document order; the record kept is the one of the
\* first entry (so it has no details when the detail fetch of the first
\* entry failed).
\* ------------------------------------------------------------------------
C8_NoDuplicateRecords ==
    \A i \in DOMAIN CINEMAS :
        LET c == CINEMAS[i]
            mine == SelectSeq(scraped[run], LAMBDA f : f.cinema_name = c.name)
            first_fetch(url) ==
                CHOOSE k \in DOMAIN log :
                    /\ log[k].run = run /\ log[k].op = "detail" /\ log[k].url = url
                    /\ \A j \in 1..(k - 1) :
                          ~(log[j].run = run /\ log[j].op = "detail" /\ log[j].url = url)
        IN  ListingOk(c, run) =>
                /\ KeysOf(scraped[run], c)
                      = Dedup(EntryKeys(Listing(world, c.id), c.name, clock.date))
                /\ \A m, n \in DOMAIN mine :
                      film_key(mine[m]) = film_key(mine[n]) => m = n
                /\ \A n \in DOMAIN mine :
                      (\E k \in DOMAIN log :
                            /\ log[k].run = run /\ log[k].op = "detail"
                            /\ log[k].url = mine[n].film_url)
                      => (mine[n].details = NoDetails
                             <=> ~log[first_fetch(mine[n].film_url)].ok
                                   \/ extract_details(PageOf(mine[n].film_url)) = NoDetails)

\* the listing holds the same entry twice; the detail fetch of the first
\* failed and that of the second succeeded; one record, without details
C8_Witness ==
    /\ world = "messy"
    /\ ListingOk(CINEMAS[1], run)
    /\ Len(KeysOf(scraped[run], CINEMAS[1])) = 1
    /\ Cardinality(DetailFetches(run, <<"/film/", "a-b", "/">>)) = 2
    /\ \A f \in Range(scraped[run]) :
          f.cinema_name = "St Austell" => f.details = NoDetails

\* ------------------------------------------------------------------------
\* The call of SpecEnrich
\* ------------------------------------------------------------------------
EnSearchTitle == strip(strip_qualifier(en.title))
EnKey == tmdb_cache_key(en.title)

\* the fields of a cache entry as a hit returns them
CachedFields(entry) ==
    [overview |-> Get(entry.v, "overview", <<>>), genres |-> Get(entry.v, "genres", <<>>),
     vote_average |-> Get(entry.v, "vote_average", None),
     director |-> Get(entry.v, "director", <<>>), cast |-> Get(entry.v, "cast", <<>>)]

\* the first call is a hit as the claim has it: nothing but the cached
\* fields comes back, nothing is called, the cache is as it was
HitServedFromCache ==
    /\ en.first.extra = CachedFields(en.before[EnKey])
    /\ en.first.did = <<>>
    /\ en.first.cache = en.before

\* ------------------------------------------------------------------------
\* C9 (original): whenever the slug of the title is in the cache,
\* enrich_film_tmdb returns the cached fields, calls nothing, does not
\* sleep and leaves the cache as it was.
\* ------------------------------------------------------------------------
C9_Original ==
    en.phase # "idle" /\ EnKey \in DOMAIN en.before => HitServedFromCache

\* ------------------------------------------------------------------------
\* C9 (amended): when the title is not empty once its trailing qualifier
\* is removed and its slug is in the cache, enrich_film_tmdb returns the
\* cached fields, calls nothing, does not sleep and leaves the cache as it
\* was, a negative entry included; a title that is empty once the
\* qualifier is removed gets an empty enrichment whatever the cache holds.
\* ------------------------------------------------------------------------
C9_CacheHitServedFromCache ==
    en.phase # "idle" =>
        /\ EnSearchTitle # <<>> /\ EnKey \in DOMAIN en.before => HitServedFromCache
        /\ EnSearchTitle = <<>> =>
              /\ DOMAIN en.first.extra = {}
              /\ en.first.did = <<>>
              /\ en.first.cache = en.before

\* a hit on a negative entry: empty fields came back and nothing was called
C9_Witness ==
    /\ en.phase = "called"
    /\ EnKey \in DOMAIN en.before
    /\ en.before[EnKey] = negative_entry(Aged(1, 0))
    /\ DOMAIN en.first.extra # {}
    /\ en.first.extra.overview = <<>>
    /\ en.first.did = <<>>
    /\ en.search = SearchOk(TmdbCatalog(EnSearchTitle))

\* ------------------------------------------------------------------------
\* C10: on a miss, every failure (the search or the detail call fails, the
\* search has no result, the candidate chosen has no usable id) gives an
\* empty enrichment and leaves an empty-result entry for the slug in the
\* cache, so that a later call for the title calls nothing.
\* ------------------------------------------------------------------------
EnNoUsableId ==
    /\ en.search.status = "ok"
    /\ en.search.results # <<>>
    /\ LET chosen == pick_best_tmdb_result(en.search.results, EnSearchTitle)[1]
       IN  DOMAIN chosen = {} \/ Get(chosen, "id", 0) = 0

EnFailure ==
    \/ en.search.status # "ok"
    \/ en.search.results = <<>>
    \/ EnNoUsableId
    \/ en.detail.status # "ok"

C10_FailureIsCached ==
    /\ en.phase # "idle"
    /\ EnSearchTitle # <<>>
    /\ EnKey \notin DOMAIN en.before
    /\ EnFailure
    => /\ DOMAIN en.first.extra = {}
       /\ EnKey \in DOMAIN en.first.cache
       /\ en.first.cache[EnKey] = negative_entry(Now0)
       /\ en.phase = "again" => en.second.did = <<>>

\* ------------------------------------------------------------------------
\* The call of SpecDate: the month a label names (0: no month name)
\* ------------------------------------------------------------------------
LabelMonthNumber ==
    ("January" :> 1) @@ ("February" :> 2) @@ ("april" :> 4) @@ ("December" :> 12)
    @@ ("Sept" :> 0) @@ ("Soon" :> 0) @@ ("" :> 0)

PdMonth == LabelMonthNumber[pd.month]

\* ------------------------------------------------------------------------
\* C12: for a label "Expected at WTW Cinemas from the <day><suffix>
\* <MonthName>" whose day and month are a date of the current year that is
\* before today, parse_date returns that day and month in the next year,
\* 29 February included.
\* ------------------------------------------------------------------------
C12_PastYearlessDateRollsForward ==
    /\ pd.kind = "alt"
    /\ PdMonth # 0
    /\ ValidDate(pd.today[1], PdMonth, pd.day)
    /\ DateLess(<<pd.today[1], PdMonth, pd.day>>, pd.today)
    => pd.result = Some(<<pd.today[1] + 1, PdMonth, pd.day>>)

\* ------------------------------------------------------------------------
\* C13: for a label "Expected: D Month YYYY" that names a date of the
\* calendar, parse_date returns that date, year as written, also when the
\* date is before today.
\* ------------------------------------------------------------------------
C13_ExplicitDateReturnedAsWritten ==
    /\ pd.kind = "full"
    /\ PdMonth # 0
    /\ ValidDate(pd.year, PdMonth, pd.day)
    => pd.result = Some(<<pd.year, PdMonth, pd.day>>)

\* 29 February 2024 read on a later day: returned as written
C13_Witness ==
    /\ pd.kind = "full"
    /\ pd.result = Some(<<2024, 2, 29>>)
    /\ DateLess(pd.result[1], pd.today)

\* ------------------------------------------------------------------------
\* C14: parse_date returns None for a text of neither grammar, for a label
\* whose month word is no month name, and for a label whose day, month
\* and year (the current year for the grammar without year) are no date
\* of the calendar.
\* ------------------------------------------------------------------------
C14_UnparsableLabelIsAbsent ==
    /\ pd.kind = "other" => pd.result = None
    /\ pd.kind \in {"full", "alt"} /\ PdMonth = 0 => pd.result = None
    /\ pd.kind = "full" /\ ~ValidDate(pd.year, PdMonth, pd.day) => pd.result = None
    /\ pd.kind = "alt" /\ ~ValidDate(pd.today[1], PdMonth, pd.day) => pd.result = None

\* the 31st of April, without a year
C14_Witness ==
    /\ pd.kind = "alt"
    /\ pd.day = 31
    /\ pd.month = "april"
    /\ pd.result = None

\* ------------------------------------------------------------------------
\* The call of SpecFold: the line to fold and the physical lines of the
\* result
\* ------------------------------------------------------------------------
\* each backslash doubled, each newline written as backslash and n
EscapedChar(c) ==
    IF c = "\\" THEN <<"\\", "\\">> ELSE IF c = "\n" THEN <<"\\", "n">> ELSE <<c>>

RECURSIVE Escaped(_)
Escaped(text) ==
    IF text = <<>> THEN <<>>
    ELSE IF Len(text) = 1 THEN EscapedChar(text[1])
    ELSE Escaped(SubSeq(text, 1, Len(text) \div 2))
             \o Escaped(SubSeq(text, (Len(text) \div 2) + 1, Len(text)))

FoLine == fo.prefix \o Escaped(fo.text)

\* str.split("\n")
RECURSIVE SplitLines(_)
SplitLines(str) ==
    IF "\n" \notin Range(str) THEN <<str>>
    ELSE LET i == CHOOSE k \in DOMAIN str :
                      str[k] = "\n" /\ \A j \in 1..(k - 1) : str[j] # "\n"
         IN  <<SubSeq(str, 1, i - 1)>> \o SplitLines(SubSeq(str, i + 1, Len(str)))

FoLines == SplitLines(fo.out)

\* the lines joined again, each continuation line without its first space
Unfolded(lines) ==
    Join([k \in DOMAIN lines |->
             IF k > 1 /\ lines[k] # <<>> /\ lines[k][1] = " "
             THEN Tail(lines[k]) ELSE lines[k]], <<>>)

\* ------------------------------------------------------------------------
\* C15: the result is the escaped line itself when that has at most 75
\* characters; otherwise its first physical line is the first 75
\* characters of the escaped line (prefix included), every later line is
\* one space and then 1 to 74 characters, exactly 74 but for the last, and
\* no physical line has more than 75 characters.
\* ------------------------------------------------------------------------
C15_FoldedLineLengths ==
    fo.phase = "called" =>
        IF Len(FoLine) <= 75 THEN fo.out = FoLine
        ELSE /\ Len(FoLines) >= 2
             /\ FoLines[1] = SubSeq(FoLine, 1, 75)
             /\ \A k \in 2..Len(FoLines) :
                   /\ Len(FoLines[k]) \in 2..75
                   /\ FoLines[k][1] = " "
                   /\ k < Len(FoLines) => Len(FoLines[k]) = 75
             /\ \A k \in DOMAIN FoLines : Len(FoLines[k]) <= 75

\* three physical lines, the last one shorter than the others
C15_Witness ==
    /\ fo.phase = "called"
    /\ Len(FoLines) = 3
    /\ Len(FoLines[2]) = 75
    /\ Len(FoLines[3]) \in 2..74

\* ------------------------------------------------------------------------
\* C16: the physical lines of the result, each continuation line without
\* its one leading space, joined again are the prefix followed by the
\* escaped text (each backslash doubled, then each newline written as
\* backslash and n), whatever the length of the text.
\* ------------------------------------------------------------------------
C16_UnfoldGivesEscapedLine ==
    fo.phase = "called" => Unfolded(FoLines) = FoLine

\* a text with a backslash before an n, newlines and blanks, folded into
\* four lines, one of which goes on with a blank of the text
C16_Witness ==
    /\ fo.phase = "called"
    /\ Len(FoLines) = 4
    /\ \E i \in 1..(Len(fo.text) - 1) : fo.text[i] = "\\" /\ fo.text[i + 1] = "n"
    /\ "\n" \in Range(fo.text)
    /\ \E k \in 2..4 : FoLines[k][2] = " "

\* ------------------------------------------------------------------------
\* C20: in fetch_with_retries(N) the k-th failed attempt, k < N, is
\* followed by one sleep of 2^(k-1) time units and then by the next
\* attempt; nothing is slept after a successful attempt or after the N-th
\* failed one. At every moment of the call the sleeps made are therefore
\* 1, 2, 4, ..., one for each attempt made but the last one when the call
\* has ended.
\* ------------------------------------------------------------------------
RECURSIVE Pow2(_)
Pow2(k) == IF k = 0 THEN 1 ELSE 2 * Pow2(k - 1)

C20_BackoffSleeps ==
    fetch.status # "idle" =>
        /\ \A k \in DOMAIN fetch.sleeps : fetch.sleeps[k] = Pow2(k - 1)
        /\ fetch.status = "running" => Len(fetch.sleeps) = Len(fetch.outcomes)
        /\ fetch.status # "running" =>
              Len(fetch.sleeps) = IF fetch.outcomes = <<>> THEN 0
                                  ELSE Len(fetch.outcomes) - 1
        /\ fetch.status = "raised" => Len(fetch.sleeps) = fetch.retries - 1

\* five attempts failed: four sleeps, none after the fifth
C20_Witness ==
    /\ fetch.status = "raised"
    /\ fetch.retries = 5
    /\ fetch.sleeps = <<1, 2, 4, 8>>

\* ------------------------------------------------------------------------
\* C19: a listing entry without h2, with a title that is empty once the
\* qualifier in brackets is stripped, without a date label, or with a
\* label parse_date gives None for, gives no record and no detail fetch,
\* and extract_films goes on: every record of the venue comes from an
\* entry that is none of these, no detail page is fetched for a URL that
\* only such entries link to, and the entries after such an entry have
\* their records.
\* ------------------------------------------------------------------------
Skipped(e, today) ==
    \/ e.h2 = None
    \/ e.p = None
    \/ strip_qualifier(e.h2[1]) = <<>>
    \/ parse_date(e.p[1], today) = None

EntryUrl(e) == IF e.a = None THEN <<>> ELSE e.a[1]

EntryKey(e, c, today) ==
    <<parse_date(e.p[1], today)[1], strip_qualifier(e.h2[1]), c.name, EntryUrl(e)>>

C19_BadEntriesAreSkipped ==
    \A i \in DOMAIN CINEMAS :
        LET c == CINEMAS[i]
            entries == Listing(world, c.id)
            today == clock.date
            bad == { j \in DOMAIN entries : Skipped(entries[j], today) }
            good == DOMAIN entries \ bad
        IN  ListingOk(c, run) =>
                /\ \A f \in Range(scraped[run]) :
                      f.cinema_name = c.name =>
                          \E j \in good : EntryKey(entries[j], c, today) = film_key(f)
                /\ \A j \in bad :
                      (\A k \in good : EntryUrl(entries[k]) # EntryUrl(entries[j]))
                      => ~\E n \in DOMAIN log :
                            /\ log[n].run = run /\ log[n].op = "detail"
                            /\ log[n].url = EntryUrl(entries[j])
                /\ \A j \in bad : \A k \in good :
                      j < k => EntryKey(entries[k], c, today)
                                   \in Range(KeysOf(scraped[run], c))

\* both listings with entries of every such kind were read: St Austell has
\* one record and no fetch for the entry without h2 or the one whose title
\* is only a qualifier, Newquay has the record that follows the 31st of April
C19_Witness ==
    /\ world = "messy"
    /\ ListingOk(CINEMAS[1], run)
    /\ ListingOk(CINEMAS[2], run)
    /\ Len(KeysOf(scraped[run], CINEMAS[1])) = 1
    /\ \E f \in Range(scraped[run]) :
          f.cinema_name = "Newquay" /\ f.title = <<"(", "c", ")">>
    /\ \E n \in DOMAIN log : log[n].run = run /\ log[n].op = "detail" /\ log[n].ok

\* ------------------------------------------------------------------------
\* C11: while and after the enrichment loop of main (until the sort), every
\* record is the record extract_films gave, at the same place: the same
\* release_date, title, venue and detail URL, the same runtime and
\* synopsis, every field of its details still there, and a cast or
\* director that differs only where the TMDb entry of the title holds that
\* value and the value is not empty.
\* ------------------------------------------------------------------------
C11_EnrichmentKeepsVenueFields ==
    pc \in {"enrich", "write"} =>
        /\ Len(all_films) = Len(scraped[run])
        /\ \A i \in DOMAIN all_films :
              LET f == all_films[i]
                  g == scraped[run][i]
                  key == tmdb_cache_key(f.title)
              IN  /\ film_key(f) = film_key(g)
                  /\ f.cinema_id = g.cinema_id
                  /\ DOMAIN g.details \subseteq DOMAIN f.details
                  /\ f.details.runtime = g.details.runtime
                  /\ f.details.synopsis = g.details.synopsis
                  /\ \A k \in {"cast", "director"} :
                        f.details[k] # g.details[k] =>
                            /\ f.details[k] # <<>>
                            /\ key \in DOMAIN tmdb_cache
                            /\ Get(tmdb_cache[key].v, k, <<>>) = f.details[k]

\* the loop is over; one record took cast, director and rating from TMDb
\* and kept its runtime and synopsis, another met a stored empty result
\* and kept the cast of the venue
C11_Witness ==
    /\ pc = "enrich"
    /\ todo = <<>>
    /\ \E i \in DOMAIN all_films :
          /\ scraped[run][i].details.cast = <<"J", "a", "n", "e">>
          /\ all_films[i].details.cast = <<"X", ",", " ", "Y">>
          /\ all_films[i].details.director = <<"D">>
          /\ "vote_average" \in DOMAIN all_films[i].details
          /\ all_films[i].details.runtime # <<>>
          /\ all_films[i].details.synopsis # <<>>

\* a stored empty result was applied: genres added, the cast of the venue kept
C11_WitnessEmptyResult ==
    /\ pc = "enrich"
    /\ todo = <<>>
    /\ \E i \in DOMAIN all_films :
          /\ all_films[i].details.cast = <<"J", "a", "n", "e">>
          /\ "genres" \in DOMAIN all_films[i].details
          /\ "vote_average" \notin DOMAIN all_films[i].details

\* ------------------------------------------------------------------------
\* The history step of main
\* ------------------------------------------------------------------------
\* the step that loads the history, saves it and writes the statistics
HistoryStep == pc = "stats" /\ pc' = "returned"

\* the (release_date, title) pairs of the records of the run
RunPairs == { <<f.release_date, f.title>> : f \in Range(all_films) }

\* the pairs a history file holds, for a file that can be loaded
HistoryReadable(file) == load_release_history(file).status = "returned"
HistoryPairs(file) == load_release_history(file).value

\* d is today or later; d is at most n days before today, or later
Upcoming(d, today) == ~DateLess(d, today)
Within(d, today, n) == toordinal(d) >= toordinal(today) - n

\* ------------------------------------------------------------------------
\* C17: each of the five counters written to the index page is a number of
\* distinct (release_date, title) pairs: of the pairs of the run for
\* this_month, this_year and total_upcoming, of the pairs of the history
\* and of the run together for past_30_days and ytd_past. A title that
\* several venues list for the same date is one pair and counts once.
\* ------------------------------------------------------------------------
C17_StatsCountUniqueReleases ==
    [][HistoryStep =>
         LET today == clock.date
             known == HistoryPairs(disk.history) \cup RunPairs
             stats == disk'.index[1]
         IN  /\ stats.total_upcoming
                   = Cardinality({ p \in RunPairs : Upcoming(p[1], today) })
             /\ stats.this_year
                   = Cardinality({ p \in RunPairs :
                                     Upcoming(p[1], today) /\ p[1][1] = today[1] })
             /\ stats.this_month
                   = Cardinality({ p \in RunPairs :
                                     /\ Upcoming(p[1], today)
                                     /\ p[1][1] = today[1] /\ p[1][2] = today[2] })
             /\ stats.past_30_days
                   = Cardinality({ p \in known :
                                     ~DateLess(today, p[1]) /\ Within(p[1], today, 30) })
             /\ stats.ytd_past
                   = Cardinality({ p \in known :
                                     DateLess(p[1], today) /\ p[1][1] = today[1] })]_vars

\* the second run, eight days after the first: four venues list the same
\* title for a day that has passed, and it counts once in both counters of
\* the past
C17_Witness ==
    /\ world = "shared"
    /\ pc = "returned"
    /\ run = 2
    /\ Len(all_films) = 4
    /\ Cardinality(RunPairs) = 1
    /\ disk.index = Some([past_30_days |-> 1, ytd_past |-> 1, this_month |-> 0,
                           this_year |-> 0, total_upcoming |-> 0])

\* ------------------------------------------------------------------------
\* C18: when the history file can be loaded and the run has records, the
\* history that is saved holds exactly the pairs of the file and of the
\* run that are dated not more than 730 days before the day of the save
\* (later dates included); and no step of any run removes from the file a
\* pair that is inside that window on that day.
\* ------------------------------------------------------------------------
C18_HistoryIsPrunedUnion ==
    [][/\ (/\ HistoryStep
            /\ \E n \in DOMAIN log' :
                  /\ n > Len(log)
                  /\ log'[n].op = "save_release_history" /\ log'[n].ok)
           => /\ HistoryReadable(disk'.history)
              /\ HistoryPairs(disk'.history)
                    = { p \in HistoryPairs(disk.history) \cup RunPairs :
                          Within(p[1], clock.date, RELEASE_HISTORY_MAX_DAYS) }
       /\ HistoryReadable(disk.history)
           => /\ HistoryReadable(disk'.history)
              /\ \A p \in HistoryPairs(disk.history) :
                    Within(p[1], clock'.date, RELEASE_HISTORY_MAX_DAYS)
                        => p \in HistoryPairs(disk'.history)]_vars

\* two runs have saved the history: the pair of the file dated 730 days
\* before the first run was kept by the first and dropped by the second,
\* eight days later; the pair the first run recorded is still there
C18_Witness ==
    /\ run = 2
    /\ pc = "returned"
    /\ world = "shared"
    /\ clock.date = <<2026, 3, 18>>
    /\ Cardinality({ n \in DOMAIN log : log[n].op = "save_release_history" /\ log[n].ok }) = 2
    /\ HistoryPairs(disk.history)
          = { <<<<2026, 3, 1>>, <<"a">>>>, <<<<2026, 3, 15>>, <<"A", "b">>>> }

\* ------------------------------------------------------------------------
\* C25: for every retry count N >= 0, a call of fetch_with_retries that has
\* ended either returned a successful response or raised the failure; it
\* never ends without a response (falling off the loop, which returns None).
\* ------------------------------------------------------------------------
C25_NeverReturnsNothing ==
    (fetch.status # "idle" /\ fetch.retries >= 0) =>
        fetch.status \in {"running", "returned", "raised"}

\* ------------------------------------------------------------------------
\* C24: when the detail-page fetch of a listing entry fails after all
\* retries, fetch_film_details raises nothing and returns the empty bundle,
\* writes no cache entry for the URL, and the entry still yields a record:
\* a failed detail fetch made HTTP_RETRIES attempts for a URL that was not
\* cached, the run has a record with that URL and empty details, the cache
\* holds no entry for the canonical URL unless a later fetch of it
\* succeeded, and the next entry that looks the canonical URL up fetches
\* again.
\* ------------------------------------------------------------------------
\* the entries of the venues read so far in this run that look up the
\* detail page with canonical URL base_url, as <<venue, entry>>
Lookups(base_url) ==
    { x \in (DOMAIN CINEMAS) \X (1..5) :
        LET c == CINEMAS[x[1]]
            entries == Listing(world, c.id)
        IN  /\ ListingOk(c, run)
            /\ x[2] \in DOMAIN entries
            /\ ~Skipped(entries[x[2]], clock.date)
            /\ EntryUrl(entries[x[2]]) # <<>>
            /\ get_base_film_url(EntryUrl(entries[x[2]])) = base_url }

ScrapeStarted == pc \in {"scrape", "load_tmdb", "enrich", "write", "stats", "crashed"}

C24_FailedDetailFetch ==
    ScrapeStarted =>
        \A i \in DOMAIN log :
            (log[i].run = run /\ log[i].op = "detail" /\ ~log[i].ok) =>
                LET base_url == get_base_film_url(log[i].url)
                    F == DetailFetches(run, base_url)
                IN  /\ log[i].gets = HTTP_RETRIES
                    /\ base_url \notin DOMAIN loaded
                    /\ \E f \in Range(scraped[run]) :
                          f.film_url = log[i].url /\ f.details = NoDetails
                    /\ (\A j \in F : ~log[j].ok) => base_url \notin DOMAIN film_cache
                    /\ Cardinality(Lookups(base_url)) > Cardinality({ j \in F : j <= i })
                          => \E j \in F : j > i

\* St Austell lists the same film twice: the fetch for the first entry
\* failed, the record has empty details, and the second entry fetched again
C24_Witness ==
    /\ world = "messy"
    /\ pc = "scrape"
    /\ \E i, j \in DetailFetches(run, <<"/film/", "a-b", "/">>) :
          /\ i < j
          /\ ~log[i].ok
          /\ log[j].ok
    /\ \E f \in Range(scraped[run]) :
          f.film_url = FilmUrl("a-b", "st-austell") /\ f.details = NoDetails
    /\ <<"/film/", "a-b", "/">> \in DOMAIN film_cache

\* ------------------------------------------------------------------------
\* The call of SpecCalls on _pick_best_tmdb_result, and the score as the
\* specification words it
\* ------------------------------------------------------------------------
PickNorm(r) == normalize_title_for_match(strip(r.title))
PickYear(r) ==
    IF Len(r.release_date) >= 4 /\ \A k \in 1..4 : r.release_date[k] \in DigitChars
    THEN IntOf(r.release_date, 1, 4)
    ELSE 0
StatedScore(r, norm_query) ==
    IF Contains(PickNorm(r), norm_query) THEN 90
    ELSE IF Contains(norm_query, PickNorm(r)) THEN 30
    ELSE IF PickYear(r) >= 2020 THEN 50
    ELSE 10

\* the candidate the statement names for a candidate list and a query
StatedPick(results, search_title) ==
    LET norm_query == normalize_title_for_match(search_title)
        exact == { i \in DOMAIN results : PickNorm(results[i]) = norm_query }
        best == { i \in DOMAIN results :
                    \A j \in DOMAIN results :
                        StatedScore(results[j], norm_query)
                            <= StatedScore(results[i], norm_query) }
        Least(S) == CHOOSE i \in S : \A j \in S : i <= j
    IN  results[IF exact # {} THEN Least(exact) ELSE Least(best)]

\* ------------------------------------------------------------------------
\* C22 (original): for a non-empty candidate list and a non-empty query,
\* _pick_best_tmdb_result returns the first candidate whose normalized
\* title equals the normalized query if there is one, and otherwise the
\* earliest candidate with the maximum score (90 / 30 / 50 / 10).
\* ------------------------------------------------------------------------
C22_Original ==
    (fc.op = "pick" /\ fc.input.results # <<>> /\ fc.input.search_title # <<>>) =>
        fc.out = Some(StatedPick(fc.input.results, fc.input.search_title))

\* ------------------------------------------------------------------------
\* C22 (amended): the same for a non-empty candidate list and a query that
\* is not empty once normalized; for a query that is empty once normalized
\* the first candidate is returned.
\* ------------------------------------------------------------------------
C22_BestMatch ==
    (fc.op = "pick" /\ fc.input.results # <<>>) =>
        IF normalize_title_for_match(fc.input.search_title) # <<>>
        THEN fc.out = Some(StatedPick(fc.input.results, fc.input.search_title))
        ELSE fc.out = Some(fc.input.results[1])

\* the third candidate equals the query once normalized and is returned,
\* although the first one holds the query (score 90)
C22_Witness ==
    /\ fc.op = "pick"
    /\ fc.input.search_title = <<"A", " ", "-", " ", "b">>
    /\ Len(fc.input.results) = 3
    /\ fc.input.results[1].id = 2
    /\ fc.input.results[2].id = 4
    /\ fc.input.results[3].id = 7
    /\ fc.out = Some(fc.input.results[3])

\* no candidate equals the query: the second of three is the first with
\* the highest score
C22_WitnessScore ==
    /\ fc.op = "pick"
    /\ fc.input.search_title = <<"A", " ", "-", " ", "b">>
    /\ Len(fc.input.results) = 3
    /\ fc.input.results[1].id = 5
    /\ fc.input.results[2].id = 4
    /\ fc.input.results[3].id = 3
    /\ fc.out = Some(fc.input.results[2])

\* ------------------------------------------------------------------------
\* C23: when no paragraph qualifies as synopsis, the synopsis is the text
\* of the first container block, in document order, that is longer than 50
\* and shorter than 500 and holds none of cookie, privacy, terms; a block
\* that holds only "wheelchair" or "audio description" is accepted.
\* ------------------------------------------------------------------------
NARROW_SKIP_TERMS == {"cookie", "privacy", "terms"}

ParagraphQualifies(t) ==
    TextLen(t) > MIN_SYNOPSIS_LENGTH /\ \A skip \in SYNOPSIS_SKIP_TERMS : ~TextHas(t, skip)

BlockQualifies(t) ==
    /\ TextLen(t) > MIN_SYNOPSIS_LENGTH
    /\ TextLen(t) < MAX_SYNOPSIS_LENGTH
    /\ \A skip \in NARROW_SKIP_TERMS : ~TextHas(t, skip)

C23_FallbackNarrowDenylist ==
    fc.op = "details" =>
        LET page == fc.input
            j == FirstWhere(page.divs, BlockQualifies)
        IN  ((\A i \in DOMAIN page.ps : ~ParagraphQualifies(page.ps[i])) /\ j # 0)
                => fc.out.synopsis = page.divs[j].body

\* Whatever the fallback does with the two accessibility terms, it takes
\* the first block of the right length that holds none of the five terms
\* when no block before it holds only accessibility terms.
C23_FallbackOtherwise ==
    fc.op = "details" =>
        LET page == fc.input
            j == FirstWhere(page.divs, BlockQualifies)
        IN  ((\A i \in DOMAIN page.ps : ~ParagraphQualifies(page.ps[i])) /\ j # 0
             /\ ParagraphQualifies(page.divs[j]))
                => fc.out.synopsis = page.divs[j].body

\* ------------------------------------------------------------------------
\* C30: for every set of records and every history set, the upcoming
\* counters satisfy this_month <= this_year <= total_upcoming; each of them
\* counts only releases dated today or later (the releases before today
\* add nothing to it, and it is at most the number of releases of today or
\* later), and ytd_past counts only releases dated before today in the
\* current year.
\* ------------------------------------------------------------------------
C30_CounterOrder ==
    fc.op = "stats" =>
        LET today == fc.input.today
            unique_releases == fc.input.unique_releases
            release_history == fc.input.release_history
            coming == { p \in unique_releases : ~DateLess(p[1], today) }
            gone == { p \in release_history :
                        DateLess(p[1], today) /\ p[1][1] = today[1] }
            of_coming == release_stats(release_history, coming, today)
            of_gone == release_stats(gone, unique_releases, today)
        IN  /\ fc.out.this_month <= fc.out.this_year
            /\ fc.out.this_year <= fc.out.total_upcoming
            /\ fc.out.total_upcoming <= Cardinality(coming)
            /\ fc.out.this_month = of_coming.this_month
            /\ fc.out.this_year = of_coming.this_year
            /\ fc.out.total_upcoming = of_coming.total_upcoming
            /\ fc.out.ytd_past = of_gone.ytd_past
            /\ fc.out.ytd_past <= Cardinality(gone)

\* on 10 March 2026, records of 1, 10, 31 March, 1 April and 10 March 2027
\* and a history with 31 December 2025: 2 < 3 < 4 upcoming, 1 gone this year
C30_Witness ==
    /\ fc.op = "stats"
    /\ fc.input.today = <<2026, 3, 10>>
    /\ fc.input.unique_releases
          = StatPairs \ {<<<<2025, 12, 31>>, <<"a">>>>, <<<<2026, 3, 10>>, <<"b">>>>}
    /\ <<<<2025, 12, 31>>, <<"a">>>> \in fc.input.release_history
    /\ fc.out.this_month = 2
    /\ fc.out.this_year = 3
    /\ fc.out.total_upcoming = 4
    /\ fc.out.ytd_past = 1

\* ------------------------------------------------------------------------
\* Enrichment calls of a run, read from the log
\* ------------------------------------------------------------------------
\* enrich_film_tmdb was called for the key in run r
EnrichCalls(r, key) ==
    { i \in DOMAIN log :
        log[i].run = r /\ log[i].op = "enrich_film_tmdb" /\ log[i].url = key }

\* the call of run r for the key asked TMDb (a live lookup)
Live(r, key) ==
    \E i \in DOMAIN log :
        log[i].run = r /\ log[i].op = "tmdb_search" /\ log[i].url = key

\* the call of run r for the key was answered from the cache
Hit(r, key) ==
    /\ EnrichCalls(r, key) # {}
    /\ ~Live(r, key)
    /\ key \in DOMAIN tmdb_cache

\* ------------------------------------------------------------------------
\* C29: the calendar event of a record written in the run where the
\* enrichment of its title was a live lookup is the event written for the
\* same record in the next run when that run is served from the cache
\* entry the lookup wrote, for a match and for a negative result alike:
\* when the second run writes its calendars, every event of a record whose
\* title was looked up live in the first run and served from the cache in
\* the second, and whose venue fields are those of the first run, is the
\* event the first run wrote for it.
\* ------------------------------------------------------------------------
SecondWrite == run = 2 /\ pc = "write" /\ pc' = "stats"

SameRecord(e1, e2) ==
    /\ film_key(e1) = film_key(e2)
    /\ \E f1 \in Range(scraped[1]), f2 \in Range(scraped[2]) :
          /\ film_key(f1) = film_key(e1)
          /\ film_key(f2) = film_key(e2)
          /\ f1.details = f2.details

C29_CachedEventIsLiveEvent ==
    [][SecondWrite =>
          \A n \in (DOMAIN disk.ics) \cap (DOMAIN disk'.ics) :
              \A e1 \in Range(disk.ics[n].events), e2 \in Range(disk'.ics[n].events) :
                  (/\ SameRecord(e1, e2)
                   /\ Live(1, tmdb_cache_key(e1.title))
                   /\ Hit(2, tmdb_cache_key(e2.title)))
                      => e2 = e1]_vars

\* the second run has written the event of a film that was matched live in
\* the first run and served from the cache now: a rating line is in it
C29_Witness ==
    /\ run = 2
    /\ pc = "stats"
    /\ \E i \in DOMAIN log : log[i].run = 1 /\ log[i].op = "write_ics"
    /\ \E i \in DOMAIN log : log[i].run = 1 /\ log[i].op = "tmdb_detail"
    /\ Live(1, <<"a", "b">>)
    /\ Hit(2, <<"a", "b">>)
    /\ \E f1 \in Range(scraped[1]), f2 \in Range(scraped[2]) :
          film_key(f1) = film_key(f2) /\ f1.details = f2.details
    /\ \E n \in DOMAIN disk.ics : \E e \in Range(disk.ics[n].events) :
          /\ e.title = <<"A", "b">>
          /\ "*" \in Range(e.description)

\* the same with a live lookup that found nothing: the second run laid the
\* empty fields of the cache entry over the record
C29_WitnessNegative ==
    /\ run = 2
    /\ pc = "stats"
    /\ \E i \in DOMAIN log : log[i].run = 1 /\ log[i].op = "write_ics"
    /\ Live(1, <<"a", "b">>)
    /\ Hit(2, <<"a", "b">>)
    /\ tmdb_cache[<<"a", "b">>].v.vote_average = None
    /\ \E f \in Range(all_films) :
          /\ f.title = <<"A", "b">>
          /\ "genres" \in DOMAIN f.details
          /\ \E g \in Range(scraped[1]), h \in Range(scraped[2]) :
                /\ film_key(g) = film_key(f)
                /\ film_key(h) = film_key(f)
                /\ g.details = h.details
    /\ \E n \in DOMAIN disk.ics : \E e \in Range(disk.ics[n].events) :
          e.title = <<"A", "b">>

\* ------------------------------------------------------------------------
\* C28: in a run with an API key, enrich_film_tmdb is called at most once
\* for each title slug among the records, and its result is laid over every
\* record with that slug: once the enrichment loop is over, the records
\* with the same slug have the same overview, genres and vote_average,
\* whatever their venue.
\* ------------------------------------------------------------------------
Slugs(films) == { tmdb_cache_key(films[i].title) : i \in DOMAIN films }

EnrichmentDone ==
    /\ strip(api_key) # <<>>
    /\ \/ pc = "enrich" /\ todo = <<>>
       \/ pc \in {"write", "stats"}

TmdbFieldsOf(f) ==
    [k \in {"overview", "genres", "vote_average"} |-> Get(f.details, k, <<"absent">>)]

C28_OneLookupPerSlug ==
    /\ \A i \in DOMAIN log :
          log[i].op = "enrich_film_tmdb" =>
              /\ Cardinality(EnrichCalls(log[i].run, log[i].url)) = 1
              /\ log[i].url \in Slugs(scraped[log[i].run])
    /\ EnrichmentDone =>
          /\ \A key \in Slugs(all_films) : Cardinality(EnrichCalls(run, key)) = 1
          /\ \A i, j \in DOMAIN all_films :
                tmdb_cache_key(all_films[i].title) = tmdb_cache_key(all_films[j].title)
                    => TmdbFieldsOf(all_films[i]) = TmdbFieldsOf(all_films[j])

\* St Austell lists "A b (c)" and Newquay "a-b": one slug, one lookup, and
\* both records have the rating of the match
C28_Witness ==
    /\ world = "messy"
    /\ EnrichmentDone
    /\ Cardinality(EnrichCalls(run, <<"a", "-", "b">>)) = 1
    /\ Live(run, <<"a", "-", "b">>)
    /\ \E i, j \in DOMAIN all_films :
          /\ all_films[i].cinema_name = "St Austell"
          /\ all_films[j].cinema_name = "Newquay"
          /\ all_films[i].title # all_films[j].title
          /\ tmdb_cache_key(all_films[i].title) = tmdb_cache_key(all_films[j].title)
          /\ Get(all_films[i].details, "vote_average", None) # None
          /\ TmdbFieldsOf(all_films[i]) = TmdbFieldsOf(all_films[j])

\* ------------------------------------------------------------------------
\* The order of the loads and saves of a run, read from the log
\* ------------------------------------------------------------------------
RunLog(r, ops) == { i \in DOMAIN log : log[i].run = r /\ log[i].op \in ops }

\* every step of run r with an op of `first` comes before every one of `then`
InOrder(r, first, then) ==
    \A i \in RunLog(r, first), j \in RunLog(r, then) : i < j

StoreOps ==
    {"load_cache", "save_cache", "load_tmdb_cache", "save_tmdb_cache",
     "load_release_history", "save_release_history"}

\* what the statement and the program agree on: each store is loaded and
\* saved at most once, the load before the save; the detail cache is saved
\* after a listing fetch for every enabled venue and after every fetch; the
\* enrichment cache is saved after a call for every slug and after every
\* call; the stores are saved one after the other
StoresInOrder(r) ==
    /\ \A op \in StoreOps : Cardinality(RunLog(r, {op})) <= 1
    /\ InOrder(r, {"load_cache", "listing", "detail"}, {"save_cache"})
    /\ RunLog(r, {"save_cache"}) # {} =>
          \A i \in DOMAIN enabled_cinemas(conf) :
              \E j \in RunLog(r, {"listing"}) : log[j].url = enabled_cinemas(conf)[i].url
    /\ InOrder(r, {"load_tmdb_cache", "enrich_film_tmdb", "sleep", "tmdb_search",
                   "tmdb_detail"}, {"save_tmdb_cache"})
    /\ RunLog(r, {"save_tmdb_cache"}) # {} =>
          \A key \in Slugs(scraped[r]) : EnrichCalls(r, key) # {}
    /\ InOrder(r, {"save_cache"}, {"load_tmdb_cache", "save_tmdb_cache"})
    /\ InOrder(r, {"save_cache", "save_tmdb_cache"}, {"load_release_history"})
    /\ InOrder(r, {"load_release_history"}, {"save_release_history"})

\* ------------------------------------------------------------------------
\* C21 (original): in every run that passes validation and finds a record,
\* each store is loaded at most once and saved at most once, in this order:
\* the detail cache after the last venue, the enrichment cache after the
\* last title, and the release history after the statistics counters have
\* been computed.
\* ------------------------------------------------------------------------
C21_Original ==
    \A r \in 1..run :
        scraped[r] # <<>> =>
            /\ StoresInOrder(r)
            /\ InOrder(r, {"release_stats"}, {"save_release_history"})

\* ------------------------------------------------------------------------
\* C21 (amended): the same, but the release history is saved after it has
\* been loaded and merged with the releases of the run, before the
\* statistics counters are computed.
\* ------------------------------------------------------------------------
C21_StoresLoadedAndSavedOnce ==
    \A r \in 1..run :
        scraped[r] # <<>> =>
            /\ StoresInOrder(r)
            /\ InOrder(r, {"save_release_history"}, {"release_stats"})
            /\ RunLog(r, {"release_stats"}) # {} => RunLog(r, {"save_release_history"}) # {}

\* a run with an API key that came to its end: the three stores were
\* loaded and saved, and two venues were read
C21_Witness ==
    /\ pc = "returned"
    /\ scraped[run] # <<>>
    /\ \A op \in StoreOps \cup {"release_stats"} : Cardinality(RunLog(run, {op})) = 1
    /\ Cardinality(RunLog(run, {"listing"})) >= 2
    /\ RunLog(run, {"tmdb_search"}) # {}

\* ------------------------------------------------------------------------
\* The end of a run
\* ------------------------------------------------------------------------
RunOver == ValidConfig /\ pc \in {"returned", "crashed"}

\* the run ended in load_tmdb_cache (the exception of a store of the wrong
\* shape, see C5), before the enrichment
CrashedInLoadTmdbCache ==
    /\ pc = "crashed"
    /\ RunLog(run, {"load_tmdb_cache"}) # {}
    /\ RunLog(run, {"load_release_history"}) = {}

\* the calendars on disk are those of this run: one for each enabled
\* venue, with one event for each record of the venue and no other, by
\* ascending release date
CalendarsOfRun ==
    /\ Cardinality(RunLog(run, {"write_ics"})) = 1
    /\ \A c \in Range(CINEMAS) :
          conf.enabled[c.id] =>
              /\ IcsName(c.id) \in DOMAIN disk.ics
              /\ LET events == disk.ics[IcsName(c.id)].events
                     mine == SelectSeq(scraped[run], LAMBDA f : f.cinema_name = c.name)
                 IN  /\ Len(events) = Len(mine)
                     /\ { film_key(events[i]) : i \in DOMAIN events }
                           = { film_key(mine[i]) : i \in DOMAIN mine }
                     /\ \A i \in DOMAIN events : events[i].cinema_name = c.name
                     /\ \A i, j \in DOMAIN events :
                           i < j => DateLeq(events[i].release_date, events[j].release_date)

\* ------------------------------------------------------------------------
\* C26: when at least one record was found in the run, exactly one calendar
\* is written for each enabled venue, a venue whose scrape failed or found
\* nothing included (zero events, in place of the previous calendar); each
\* calendar has exactly one event per record of its venue and no event of
\* another venue, in ascending release-date order.
\* ------------------------------------------------------------------------
C26_OneCalendarPerEnabledVenue ==
    (RunOver /\ scraped[run] # <<>>) => CalendarsOfRun

\* The same for the runs that do not end in load_tmdb_cache.
C26_UnlessLoadTmdbCacheRaises ==
    (RunOver /\ scraped[run] # <<>> /\ ~CrashedInLoadTmdbCache) => CalendarsOfRun

\* a second run in which St Austell failed after a first run that wrote an
\* event for it: its calendar is there with no event, another has one; and
\* a calendar of this run with two events
C26_Reached ==
    /\ RunOver
    /\ run = 2
    /\ ListingFailed(CINEMAS[1], 2)
    /\ \E f \in Range(scraped[1]) : f.cinema_name = "St Austell"
    /\ {IcsName("st-austell"), IcsName("newquay")} \subseteq DOMAIN disk.ics
    /\ disk.ics[IcsName("st-austell")].events = <<>>
    /\ disk.ics[IcsName("newquay")].events # <<>>

\* ------------------------------------------------------------------------
\* C27: when no record is found across the enabled venues, the run saves
\* the detail cache (and the enrichment cache when an API key is set) and
\* then ends without writing a calendar or the index page and without
\* loading or saving the release history: the calendars, the index page
\* and the history file stay as they were.
\* ------------------------------------------------------------------------
\* the loop over the venues is over and has found nothing
NothingFound == LoopDone /\ enabled_cinemas(conf) # <<>> /\ scraped[run] = <<>>

OutputsOf(d) == <<d.ics, d.index, d.history>>

SavesOfEmptyRun ==
    /\ Cardinality(RunLog(run, {"save_cache"})) = 1
    /\ strip(api_key) # <<>> => Cardinality(RunLog(run, {"save_tmdb_cache"})) = 1
    /\ strip(api_key) = <<>> => RunLog(run, {"load_tmdb_cache", "save_tmdb_cache"}) = {}
    /\ InOrder(run, {"save_cache"}, {"load_tmdb_cache", "save_tmdb_cache"})
    /\ RunLog(run, {"write_ics", "write_index", "load_release_history",
                    "save_release_history", "release_stats"}) = {}

C27_EmptyRunWritesNothing ==
    [][/\ (NothingFound /\ pc \in {"returned", "crashed"})' => SavesOfEmptyRun'
       /\ (NothingFound /\ NothingFound') => OutputsOf(disk') = OutputsOf(disk)]_vars

\* The same for the runs that do not end in load_tmdb_cache.
C27_UnlessLoadTmdbCacheRaises ==
    [][/\ (NothingFound /\ pc \in {"returned", "crashed"} /\ ~CrashedInLoadTmdbCache)'
           => SavesOfEmptyRun'
       /\ (NothingFound /\ NothingFound') => OutputsOf(disk') = OutputsOf(disk)]_vars

\* a second run with an API key in which both listings failed, after a
\* first run that wrote calendars and the index page: both caches were
\* saved, the calendars of the first run are still there
C27_Reached ==
    /\ run = 2
    /\ pc = "returned"
    /\ NothingFound
    /\ scraped[1] # <<>>
    /\ RunLog(2, {"save_tmdb_cache"}) # {}
    /\ RunLog(1, {"write_index"}) # {}
    /\ \E n \in DOMAIN disk.ics : disk.ics[n].events # <<>>
    /\ disk.index # None

====
